---------------------------- MODULE Spec2Model ----------------------------
(***************************************************************************)
(* ProxGuard: configuration parsers, rule catalog, scoring engine and the  *)
(* audit store.                                                            *)
(*                                                                         *)
(* Values.  A nullable or optional field (T | null, T | undefined, an      *)
(* optional sub-model) is the empty tuple << >> when it is null/undefined  *)
(* and the one-element tuple << v >> when it holds v.  A JavaScript object *)
(* used as a map (Record<string, string>) is a function whose domain is    *)
(* the set of its keys.                                                    *)
(*                                                                         *)
(* Text.  A raw configuration text is the sequence of its lines.  A line   *)
(* is the tuple of the pieces the parser's regular expressions cut it      *)
(* into (see each parser); the empty tuple is a blank line.                *)
(***************************************************************************)
EXTENDS Integers, Sequences, FiniteSets, TLC

VARIABLES
    configInputs,      \* store: raw text per file type
    lastConfigInputs,  \* store: inputs of the last completed audit
    parsedConfig,      \* store: ParsedConfig | null
    auditReport,       \* store: AuditReport | null
    history,           \* store: stored reports, newest first
    activeVariant,     \* store: UI theme
    isAuditing,        \* store: loading flag
    comparisonPair,    \* store: [number, number] | null
    pending,           \* number of setTimeout callbacks of runAudit not yet run
    now,               \* Date.now()
    op,                \* engine: the function last called ("idle" before a call)
    arg,               \* engine: its argument
    ret                \* engine: its result

storeVars == << configInputs, lastConfigInputs, parsedConfig, auditReport, history,
                activeVariant, isAuditing, comparisonPair, pending, now >>
engineVars == << op, arg, ret >>
vars == << configInputs, lastConfigInputs, parsedConfig, auditReport, history,
           activeVariant, isAuditing, comparisonPair, pending, now, op, arg, ret >>

---------------------------------------------------------------------------
(* Generic helpers *)

None == << >>
Some(v) == << v >>
IsSome(o) == o # << >>
Val(o) == o[1]

Max(a, b) == IF a >= b THEN a ELSE b
Min(a, b) == IF a <= b THEN a ELSE b

Range(s) == { s[i] : i \in DOMAIN s }

RECURSIVE SumSeq(_)
SumSeq(s) == IF s = << >> THEN 0 ELSE Head(s) + SumSeq(Tail(s))

RECURSIVE SeqsUpTo(_, _)
\* all sequences over S of length at most n
SeqsUpTo(S, n) ==
    IF n = 0 THEN { << >> }
    ELSE LET shorter == SeqsUpTo(S, n - 1)
         IN  shorter \cup { Append(s, x) : s \in { t \in shorter : Len(t) = n - 1 }, x \in S }

\* obj[key] = value on a JavaScript object used as a map
MapSet(m, k, v) == [ x \in (DOMAIN m) \cup {k} |-> IF x = k THEN v ELSE m[x] ]
EmptyMap == << >>

---------------------------------------------------------------------------
(* Types (src/src/types/index.ts) *)

AuditCategory == { "ssh", "firewall", "auth", "container", "api", "storage" }
Severity == { "critical", "high", "medium", "info" }
ConfigFileType == { "user.cfg", "sshd_config", "cluster.fw", "iptables", "lxc.conf", "storage.cfg" }

---------------------------------------------------------------------------
(* Scoring engine (utils/scoring) *)

CATEGORY_WEIGHTS ==
    [ ssh |-> 25, auth |-> 20, firewall |-> 25, container |-> 15, storage |-> 10, api |-> 5 ]

\* variant: steeper deductions
SEVERITY_DEDUCTIONS_Steeper ==
    [ critical |-> 50, high |-> 30, medium |-> 15, info |-> 5 ]

SEVERITY_DEDUCTIONS ==
    [ critical |-> 40, high |-> 25, medium |-> 10, info |-> 5 ]

scoreToGrade_StrictBoundaries(score) ==
    IF score > 90 THEN "A"
    ELSE IF score > 80 THEN "B"
    ELSE IF score > 70 THEN "C"
    ELSE IF score > 60 THEN "D"
    ELSE "F"

scoreToGrade(score) ==
    IF score >= 90 THEN "A"
    ELSE IF score >= 80 THEN "B"
    ELSE IF score >= 70 THEN "C"
    ELSE IF score >= 60 THEN "D"
    ELSE "F"

RECURSIVE DeductionLoop(_, _)
\* the for-loop of calculateCategoryScore: score after the remaining findings
DeductionLoop(findings, score) ==
    IF findings = << >> THEN score
    ELSE LET finding == Head(findings)
         IN  DeductionLoop(Tail(findings),
                 IF ~finding.result.passed
                 THEN score - SEVERITY_DEDUCTIONS[finding.rule.severity]
                 ELSE score)

calculateCategoryScore_NoFloor(category, findings) ==
    [ category |-> category,
      score    |-> DeductionLoop(findings, 100),
      findings |-> findings,
      maxScore |-> 100 ]

\* variant: every finding deducts, passed or not
calculateCategoryScore_DeductsPassed(category, findings) ==
    [ category |-> category,
      score    |-> Max(0, 100 - SumSeq([ i \in DOMAIN findings |->
                                           SEVERITY_DEDUCTIONS[findings[i].rule.severity] ])),
      findings |-> findings,
      maxScore |-> 100 ]

calculateCategoryScore(category, findings) ==
    [ category |-> category,
      score    |-> Max(0, DeductionLoop(findings, 100)),
      findings |-> findings,
      maxScore |-> 100 ]

\* Math.round(num / den) for num >= 0, den > 0: the nearest integer, a half rounds up
MathRound(num, den) == (2 * num + den) \div (2 * den)

RECURSIVE WeightLoop(_, _, _)
\* the for-loop of calculateOverallScore: << weightedSum, totalWeight >>
WeightLoop(categories, weightedSum, totalWeight) ==
    IF categories = << >> THEN << weightedSum, totalWeight >>
    ELSE LET cat == Head(categories)
             weight == CATEGORY_WEIGHTS[cat.category]
         IN  WeightLoop(Tail(categories), weightedSum + cat.score * weight, totalWeight + weight)

calculateOverallScore_Truncating(categories) ==
    LET sums == WeightLoop(categories, 0, 0)
    IN  IF sums[2] = 0 THEN 0 ELSE sums[1] \div sums[2]

calculateOverallScore(categories) ==
    LET sums == WeightLoop(categories, 0, 0)
    IN  IF sums[2] = 0 THEN 0 ELSE MathRound(sums[1], sums[2])

---------------------------------------------------------------------------
(* String.prototype.includes over the option texts of the model: the       *)
(* needles of the storage rules that occur in a given option text.         *)

NeedlesIn(text) ==
    CASE text = "no_root_squash"               -> { "no_root_squash" }
      [] text = "rw,no_root_squash"            -> { "no_root_squash" }
      [] text = "file_mode=0777,dir_mode=0777" -> { "0777", "file_mode=0777", "dir_mode=0777" }
      [] text = "file_mode=0666"               -> { "0666" }
      [] text = "guest"                        -> { "guest" }
      [] text = "sec=none"                     -> { "sec=none" }
      [] OTHER                                 -> { }

\* (a + ' ' + b + ...).includes(needle); no needle holds a space, so it lies in one part
Includes(parts, needle) == \E i \in DOMAIN parts : needle \in NeedlesIn(parts[i])

\* x || '' on an optional string
OrEmpty(o) == IF IsSome(o) THEN Val(o) ELSE ""

\* Object.values(map), in some order
RECURSIVE MapValues(_)
MapValues(m) ==
    IF DOMAIN m = { } THEN << >>
    ELSE LET k == CHOOSE x \in DOMAIN m : TRUE
         IN  << m[k] >> \o MapValues([ x \in (DOMAIN m) \ {k} |-> m[x] ])

---------------------------------------------------------------------------
(* Rule catalog: SSH rules (rules/ssh) *)

Result(passed, evidence) == [ passed |-> passed, evidence |-> evidence ]

\* variant: every value of PermitRootLogin except `no` counts as root login allowed
test_root_ssh_password_AnyButNoAllowsRoot(config) ==
    IF config.ssh = None THEN Result(TRUE, "No SSH config provided - cannot assess")
    ELSE LET ssh == Val(config.ssh)
             rootAllowed == ssh.permitRootLogin # Some("no")
             passwordAllowed == ssh.passwordAuthentication # Some("no")
         IN  IF rootAllowed /\ passwordAllowed
             THEN Result(FALSE, "PermitRootLogin, PasswordAuthentication")
             ELSE Result(TRUE, "PermitRootLogin, PasswordAuthentication")

test_root_ssh_password(config) ==
    IF config.ssh = None THEN Result(TRUE, "No SSH config provided - cannot assess")
    ELSE LET ssh == Val(config.ssh)
             rootLogin == ssh.permitRootLogin
             passwordAuth == ssh.passwordAuthentication
             rootAllowed == rootLogin = Some("yes") \/ rootLogin = None
             passwordAllowed == passwordAuth # Some("no")
         IN  IF rootAllowed /\ passwordAllowed
             THEN Result(FALSE, "PermitRootLogin, PasswordAuthentication")
             ELSE Result(TRUE, "PermitRootLogin, PasswordAuthentication")

test_ssh_default_port(config) ==
    IF config.ssh = None THEN Result(TRUE, "No SSH config provided")
    ELSE LET port == Val(config.ssh).port
         IN  IF port = Some(22) \/ port = None
             THEN Result(FALSE, "Port")
             ELSE Result(TRUE, "Port")

test_password_auth_enabled(config) ==
    IF config.ssh = None THEN Result(TRUE, "No SSH config provided")
    ELSE LET passwordAuth == Val(config.ssh).passwordAuthentication
         IN  IF passwordAuth # Some("no")
             THEN Result(FALSE, "PasswordAuthentication")
             ELSE Result(TRUE, "PasswordAuthentication=no")

test_high_max_auth_tries(config) ==
    IF config.ssh = None THEN Result(TRUE, "No SSH config provided")
    ELSE LET maxTries == Val(config.ssh).maxAuthTries
         IN  IF maxTries # None /\ Val(maxTries) > 6
             THEN Result(FALSE, "MaxAuthTries")
             ELSE Result(TRUE, "MaxAuthTries")

Rule(id, category, severity) == [ id |-> id, category |-> category, severity |-> severity ]

sshRules ==
    << Rule("root-ssh-password", "ssh", "critical"),
       Rule("ssh-default-port", "ssh", "medium"),
       Rule("password-auth-enabled", "ssh", "high"),
       Rule("high-max-auth-tries", "ssh", "medium") >>

---------------------------------------------------------------------------
(* Rule catalog: firewall rules (rules/firewall) *)

test_firewall_disabled_PassOnAbsent(config) ==
    IF config.firewall = None
    THEN Result(TRUE, "No firewall config provided")
    ELSE IF Val(config.firewall).enabled # Some(TRUE)
         THEN Result(FALSE, "Firewall enabled=")
         ELSE Result(TRUE, "Cluster firewall is enabled")

test_firewall_disabled_UnknownPasses(config) ==
    IF config.firewall = None
    THEN Result(FALSE, "No firewall config provided - firewall status unknown")
    ELSE IF Val(config.firewall).enabled = Some(FALSE)
         THEN Result(FALSE, "Firewall enabled=")
         ELSE Result(TRUE, "Cluster firewall is enabled")

test_firewall_disabled(config) ==
    IF config.firewall = None
    THEN Result(FALSE, "No firewall config provided - firewall status unknown")
    ELSE IF Val(config.firewall).enabled # Some(TRUE)
         THEN Result(FALSE, "Firewall enabled=")
         ELSE Result(TRUE, "Cluster firewall is enabled")

\* ipt.chains.find(c => c.name === 'INPUT'): the first such chain, or undefined
FindChain(chains, name) ==
    IF \E i \in DOMAIN chains : chains[i].name = name
    THEN Some(chains[CHOOSE i \in DOMAIN chains :
                  /\ chains[i].name = name
                  /\ \A j \in DOMAIN chains : chains[j].name = name => i <= j])
    ELSE None

test_default_accept_input_IptablesOnlyWhenUnset(config) ==
    IF config.firewall = None THEN Result(TRUE, "No firewall config provided")
    ELSE LET fw == Val(config.firewall)
             ipt == config.iptables
             inputChain == IF ipt # None THEN FindChain(Val(ipt).chains, "INPUT") ELSE None
         IN  IF fw.policyIn = Some("ACCEPT")
             THEN Result(FALSE, "cluster.fw policy_in=ACCEPT")
             ELSE IF fw.policyIn = None /\ inputChain # None /\ Val(inputChain).policy = "ACCEPT"
                  THEN Result(FALSE, "iptables INPUT chain default policy=ACCEPT")
                  ELSE Result(TRUE, "policy_in=")

test_default_accept_input(config) ==
    IF config.firewall = None THEN Result(TRUE, "No firewall config provided")
    ELSE LET fw == Val(config.firewall)
             ipt == config.iptables
             inputChain == IF ipt # None THEN FindChain(Val(ipt).chains, "INPUT") ELSE None
         IN  IF fw.policyIn = Some("ACCEPT")
             THEN Result(FALSE, "cluster.fw policy_in=ACCEPT")
             ELSE IF ipt # None /\ inputChain # None /\ Val(inputChain).policy = "ACCEPT"
                  THEN Result(FALSE, "iptables INPUT chain default policy=ACCEPT")
                  ELSE Result(TRUE, "policy_in=")

test_no_firewall_rules(config) ==
    IF config.firewall = None THEN Result(TRUE, "No firewall config provided")
    ELSE IF Len(Val(config.firewall).rules) = 0
         THEN Result(FALSE, "Zero firewall rules defined in cluster.fw")
         ELSE Result(TRUE, "firewall rule(s) defined")

firewallRules ==
    << Rule("firewall-disabled", "firewall", "critical"),
       Rule("default-accept-input", "firewall", "high"),
       Rule("no-firewall-rules", "firewall", "medium") >>

---------------------------------------------------------------------------
(* Rule catalog: auth rules (rules/auth) *)

\* variant: root@pam is left out of the check altogether
test_no_2fa_users_IgnoresRoot(config) ==
    IF config.auth = None \/ Len(Val(config.auth).users) = 0
    THEN Result(TRUE, "No user config provided")
    ELSE LET activeUsers == SelectSeq(Val(config.auth).users,
                 LAMBDA u : u.enable # Some(FALSE) /\ u.userid # "root@pam")
             usersWithout2FA == SelectSeq(activeUsers, LAMBDA u : u.tfa = None)
         IN  IF Len(usersWithout2FA) > 0
             THEN Result(FALSE, "active users lack 2FA")
             ELSE Result(TRUE, "All active users have 2FA configured")

test_no_2fa_users(config) ==
    IF config.auth = None \/ Len(Val(config.auth).users) = 0
    THEN Result(TRUE, "No user config provided")
    ELSE LET users == Val(config.auth).users
             activeUsers == SelectSeq(users,
                 LAMBDA u : u.enable # Some(FALSE) /\ u.userid # "root@pam")
             usersWithout2FA == SelectSeq(activeUsers, LAMBDA u : u.tfa = None)
             rootNo2FA == \E i \in DOMAIN users :
                 /\ users[i].userid = "root@pam"
                 /\ \A j \in DOMAIN users : users[j].userid = "root@pam" => i <= j
                 /\ users[i].tfa = None
         IN  IF Len(usersWithout2FA) > 0
             THEN Result(FALSE, "active users lack 2FA")
             ELSE IF rootNo2FA
                  THEN Result(FALSE, "root@pam does not have 2FA configured")
                  ELSE Result(TRUE, "All active users have 2FA configured")

test_root_api_tokens(config) ==
    IF config.auth = None THEN Result(TRUE, "No user config provided")
    ELSE LET rootTokens == SelectSeq(Val(config.auth).tokens, LAMBDA t : t.userid = "root@pam")
         IN  IF Len(rootTokens) > 0
             THEN Result(FALSE, "root@pam has API token(s)")
             ELSE Result(TRUE, "No API tokens found for root@pam")

test_overpermissive_roles(config) ==
    IF config.auth = None THEN Result(TRUE, "No user config provided")
    ELSE LET adminAcls == SelectSeq(Val(config.auth).acls,
                 LAMBDA acl : acl.role = "Administrator" /\ acl.ugid # "root@pam")
         IN  IF Len(adminAcls) > 0
             THEN Result(FALSE, "non-root entity(s) have Administrator role")
             ELSE Result(TRUE, "No non-root users have the Administrator role")

authRules ==
    << Rule("no-2fa-users", "auth", "high"),
       Rule("root-api-tokens", "auth", "high"),
       Rule("overpermissive-roles", "auth", "medium") >>

---------------------------------------------------------------------------
(* Rule catalog: container rules (rules/container) *)

test_privileged_containers(config) ==
    IF config.containers = None \/ Len(Val(config.containers).containers) = 0
    THEN Result(TRUE, "No container config provided")
    ELSE LET privileged == SelectSeq(Val(config.containers).containers,
                 LAMBDA c : c.unprivileged = Some(FALSE) \/ c.unprivileged = None)
         IN  IF Len(privileged) > 0
             THEN Result(FALSE, "privileged container(s)")
             ELSE Result(TRUE, "All container(s) are unprivileged")

test_container_nesting(config) ==
    IF config.containers = None \/ Len(Val(config.containers).containers) = 0
    THEN Result(TRUE, "No container config provided")
    ELSE LET nested == SelectSeq(Val(config.containers).containers, LAMBDA c : c.nesting)
         IN  IF Len(nested) > 0
             THEN Result(FALSE, "container(s) with nesting")
             ELSE Result(TRUE, "No containers have nesting enabled")

containerRules ==
    << Rule("privileged-containers", "container", "high"),
       Rule("container-nesting", "container", "medium") >>

---------------------------------------------------------------------------
(* Rule catalog: storage rules (src/src/rules/storage.ts) *)

test_nfs_no_root_squash(config) ==
    IF config.storage = None \/ Len(Val(config.storage).entries) = 0
    THEN Result(TRUE, "No storage config provided")
    ELSE LET nfsEntries == SelectSeq(Val(config.storage).entries, LAMBDA e : e.type = "nfs")
             vulnerable == SelectSeq(nfsEntries, LAMBDA e :
                 Includes(<< OrEmpty(e.options), OrEmpty(e.mountOptions),
                             IF "options" \in DOMAIN e.rawOptions
                             THEN e.rawOptions["options"] ELSE "" >>,
                          "no_root_squash"))
         IN  IF Len(vulnerable) > 0
             THEN Result(FALSE, "NFS mount(s) with no_root_squash")
             ELSE IF Len(nfsEntries) = 0
                  THEN Result(TRUE, "No NFS storage backends configured")
                  ELSE Result(TRUE, "NFS mount(s) - none use no_root_squash")

CifsNeedles == { "0777", "0666", "file_mode=0777", "dir_mode=0777", "guest", "sec=none" }

test_cifs_world_readable(config) ==
    IF config.storage = None \/ Len(Val(config.storage).entries) = 0
    THEN Result(TRUE, "No storage config provided")
    ELSE LET cifsEntries == SelectSeq(Val(config.storage).entries, LAMBDA e : e.type = "cifs")
             vulnerable == SelectSeq(cifsEntries, LAMBDA e :
                 LET allOpts == MapValues(e.rawOptions)
                                \o << OrEmpty(e.options), OrEmpty(e.mountOptions) >>
                 IN  \E needle \in CifsNeedles : Includes(allOpts, needle))
         IN  IF Len(vulnerable) > 0
             THEN Result(FALSE, "CIFS mount(s) with broad permissions")
             ELSE IF Len(cifsEntries) = 0
                  THEN Result(TRUE, "No CIFS storage backends configured")
                  ELSE Result(TRUE, "CIFS mount(s) - permissions look reasonable")

storageRules ==
    << Rule("nfs-no-root-squash", "storage", "high"),
       Rule("cifs-world-readable", "storage", "medium") >>

---------------------------------------------------------------------------
(* Rule catalog: API rules (rules/api) *)

adminRoles == { "Administrator", "PVEAdmin" }

test_admin_api_tokens(config) ==
    IF config.auth = None \/ config.api = None \/ Len(Val(config.api).tokens) = 0
    THEN Result(TRUE, "No API tokens configured")
    ELSE LET acls == Val(config.auth).acls
             adminTokens == SelectSeq(Val(config.api).tokens, LAMBDA token :
                 /\ \E i \in DOMAIN acls :
                        acls[i].ugid = token.userid /\ acls[i].role \in adminRoles
                 /\ (token.privsep = Some(FALSE) \/ token.privsep = None))
         IN  IF Len(adminTokens) > 0
             THEN Result(FALSE, "admin-level API token(s)")
             ELSE Result(TRUE, "API token(s) - none have unrestricted admin access")

test_no_token_expiry(config) ==
    IF config.api = None \/ Len(Val(config.api).tokens) = 0
    THEN Result(TRUE, "No API tokens configured")
    ELSE LET noExpiry == SelectSeq(Val(config.api).tokens, LAMBDA t :
                 t.expire = None \/ Val(t.expire) = 0)
         IN  IF Len(noExpiry) > 0
             THEN Result(FALSE, "token(s) without expiration")
             ELSE Result(TRUE, "All token(s) have expiration dates")

apiRules ==
    << Rule("admin-api-tokens", "api", "high"),
       Rule("no-token-expiry", "api", "medium") >>

---------------------------------------------------------------------------
(* Rule registry (rules/index) *)

allRules == sshRules \o authRules \o firewallRules \o containerRules \o storageRules \o apiRules

\* rule.test(parsedConfig): the test function the rule record carries.  A rule that is
\* not one of the sixteen carries a test of its own; the model's extra rule always fails.
RuleTest(rule, config) ==
    CASE rule.id = "root-ssh-password"     -> test_root_ssh_password(config)
      [] rule.id = "ssh-default-port"      -> test_ssh_default_port(config)
      [] rule.id = "password-auth-enabled" -> test_password_auth_enabled(config)
      [] rule.id = "high-max-auth-tries"   -> test_high_max_auth_tries(config)
      [] rule.id = "firewall-disabled"     -> test_firewall_disabled(config)
      [] rule.id = "default-accept-input"  -> test_default_accept_input(config)
      [] rule.id = "no-firewall-rules"     -> test_no_firewall_rules(config)
      [] rule.id = "no-2fa-users"          -> test_no_2fa_users(config)
      [] rule.id = "root-api-tokens"       -> test_root_api_tokens(config)
      [] rule.id = "overpermissive-roles"  -> test_overpermissive_roles(config)
      [] rule.id = "privileged-containers" -> test_privileged_containers(config)
      [] rule.id = "container-nesting"     -> test_container_nesting(config)
      [] rule.id = "nfs-no-root-squash"    -> test_nfs_no_root_squash(config)
      [] rule.id = "cifs-world-readable"   -> test_cifs_world_readable(config)
      [] rule.id = "admin-api-tokens"      -> test_admin_api_tokens(config)
      [] rule.id = "no-token-expiry"       -> test_no_token_expiry(config)
      [] OTHER                             -> Result(FALSE, "custom rule")

---------------------------------------------------------------------------
(* generateAuditReport (utils/scoring) *)

allCategories == << "ssh", "firewall", "auth", "container", "storage", "api" >>

CONFIG_FILE_TYPES ==
    << "sshd_config", "user.cfg", "cluster.fw", "iptables", "lxc.conf", "storage.cfg" >>

Indent == " "

\* line.trim() on a line of pieces: leading white space is the piece Indent
TrimLine(line) == IF line # << >> /\ Head(line) = Indent THEN Tail(line) ELSE line

\* text.trim().length > 0
HasContent(text) == \E i \in DOMAIN text : TrimLine(text[i]) # << >>

RECURSIVE GroupLoop(_, _)
\* the loop that pushes each finding to the list of its rule's category; a category
\* that is not yet a key of the Map gets a list of its own
GroupLoop(findings, categoryFindings) ==
    IF findings = << >> THEN categoryFindings
    ELSE LET finding == Head(findings)
             cat == finding.rule.category
             catFindings == IF cat \in DOMAIN categoryFindings
                            THEN categoryFindings[cat] ELSE << >>
         IN  GroupLoop(Tail(findings), MapSet(categoryFindings, cat, Append(catFindings, finding)))

generateAuditReport_StopAtFirstFailure(config, rules, timestamp) ==
    LET evaluated == [ i \in DOMAIN rules |->
                         [ rule |-> rules[i], result |-> RuleTest(rules[i], config) ] ]
        upTo == IF \E i \in DOMAIN rules : ~evaluated[i].result.passed
                THEN CHOOSE i \in DOMAIN rules :
                        /\ ~evaluated[i].result.passed
                        /\ \A j \in 1..(i - 1) : evaluated[j].result.passed
                ELSE Len(rules)
        allFindings == SubSeq(evaluated, 1, upTo)
        categoryFindings ==
            GroupLoop(allFindings, [ c \in Range(allCategories) |-> << >> ])
        categories == [ i \in DOMAIN allCategories |->
            calculateCategoryScore(allCategories[i], categoryFindings[allCategories[i]]) ]
        overallScore == calculateOverallScore(categories)
    IN  [ timestamp    |-> timestamp,
          overallGrade |-> scoreToGrade(overallScore),
          overallScore |-> overallScore,
          categories   |-> categories,
          findings     |-> allFindings,
          inputFiles   |-> SelectSeq(CONFIG_FILE_TYPES,
                                     LAMBDA ft : HasContent(config.raw[ft])) ]

generateAuditReport_SkipsEmptyCategories(config, rules, timestamp) ==
    LET allFindings == [ i \in DOMAIN rules |->
                           [ rule |-> rules[i], result |-> RuleTest(rules[i], config) ] ]
        categoryFindings ==
            GroupLoop(allFindings, [ c \in Range(allCategories) |-> << >> ])
        kept == SelectSeq(allCategories, LAMBDA c : categoryFindings[c] # << >>)
        categories == [ i \in DOMAIN kept |->
            calculateCategoryScore(kept[i], categoryFindings[kept[i]]) ]
        overallScore == calculateOverallScore(categories)
    IN  [ timestamp    |-> timestamp,
          overallGrade |-> scoreToGrade(overallScore),
          overallScore |-> overallScore,
          categories   |-> categories,
          findings     |-> allFindings,
          inputFiles   |-> SelectSeq(CONFIG_FILE_TYPES,
                                     LAMBDA ft : HasContent(config.raw[ft])) ]

generateAuditReport(config, rules, timestamp) ==
    LET allFindings == [ i \in DOMAIN rules |->
                           [ rule |-> rules[i], result |-> RuleTest(rules[i], config) ] ]
        categoryFindings ==
            GroupLoop(allFindings, [ c \in Range(allCategories) |-> << >> ])
        categories == [ i \in DOMAIN allCategories |->
            calculateCategoryScore(allCategories[i], categoryFindings[allCategories[i]]) ]
        overallScore == calculateOverallScore(categories)
        overallGrade == scoreToGrade(overallScore)
    IN  [ timestamp    |-> timestamp,
          overallGrade |-> overallGrade,
          overallScore |-> overallScore,
          categories   |-> categories,
          findings     |-> allFindings,
          inputFiles   |-> SelectSeq(CONFIG_FILE_TYPES,
                                     LAMBDA ft : HasContent(config.raw[ft])) ]

---------------------------------------------------------------------------
(* Zero-value sub-models: the `result` each parser starts from *)

ZeroSSH ==
    [ permitRootLogin |-> None, passwordAuthentication |-> None, pubkeyAuthentication |-> None,
      port |-> None, maxAuthTries |-> None, permitEmptyPasswords |-> None,
      x11Forwarding |-> None, usePAM |-> None, protocol |-> None, loginGraceTime |-> None,
      rawDirectives |-> EmptyMap ]

ZeroFirewall ==
    [ enabled |-> None, policyIn |-> None, policyOut |-> None,
      rules |-> << >>, ipSets |-> << >>, options |-> EmptyMap ]

ZeroAuth ==
    [ users |-> << >>, groups |-> << >>, acls |-> << >>, tokens |-> << >>, roles |-> EmptyMap ]

ZeroIptables == [ chains |-> << >> ]

ZeroContainers == [ containers |-> << >> ]

ZeroStorage == [ entries |-> << >> ]

EmptyRaw == [ ft \in ConfigFileType |-> << >> ]

---------------------------------------------------------------------------
(* Records of the data model (src/src/types/index.ts) *)

PVEUser(userid, enable, tfa) ==
    [ userid |-> userid, enable |-> enable, expire |-> None, firstName |-> None,
      lastName |-> None, email |-> None, comment |-> None, tfa |-> tfa ]

PVEAcl(propagate, path, ugid, role) ==
    [ propagate |-> propagate, path |-> path, ugid |-> ugid, role |-> role ]

PVEToken(userid, tokenId, expire, privsep) ==
    [ userid |-> userid, tokenId |-> tokenId, expire |-> expire, privsep |-> privsep,
      comment |-> None ]

FirewallRule(type, action, enable) ==
    [ type |-> type, action |-> action, source |-> None, dest |-> None, proto |-> None,
      dport |-> None, sport |-> None, iface |-> None, comment |-> None, enable |-> enable ]

IptablesChain(name, policy) == [ name |-> name, policy |-> policy, rules |-> << >> ]

ContainerConfig(id, unprivileged, nesting) ==
    [ id |-> id, unprivileged |-> unprivileged, nesting |-> nesting, mountPoints |-> << >>,
      capabilities |-> << >>, hostname |-> None, rawLines |-> << >> ]

StorageEntry(type, id) ==
    [ id |-> id, type |-> type, path |-> None, server |-> None, export |-> None,
      share |-> None, content |-> None, options |-> None, mountOptions |-> None,
      domain |-> None, username |-> None, maxfiles |-> None, subdir |-> None,
      rawOptions |-> EmptyMap ]

ParsedConfig(ssh, firewall, auth, containers, api, storage, iptables, raw) ==
    [ ssh |-> ssh, firewall |-> firewall, auth |-> auth, containers |-> containers,
      api |-> api, storage |-> storage, iptables |-> iptables, raw |-> raw ]

---------------------------------------------------------------------------
(* String functions over the words of the model's texts *)

\* String.prototype.toLowerCase; the words not listed are lower-case already
ToLower(s) ==
    CASE s = "PermitRootLogin"        -> "permitrootlogin"
      [] s = "PERMITROOTLOGIN"        -> "permitrootlogin"
      [] s = "PasswordAuthentication" -> "passwordauthentication"
      [] s = "PubkeyAuthentication"   -> "pubkeyauthentication"
      [] s = "Port"                   -> "port"
      [] s = "MaxAuthTries"           -> "maxauthtries"
      [] s = "X11Forwarding"          -> "x11forwarding"
      [] s = "UsePAM"                 -> "usepam"
      [] s = "Match"                  -> "match"
      [] s = "Yes"                    -> "yes"
      [] s = "YES"                    -> "yes"
      [] s = "No"                     -> "no"
      [] s = "True"                   -> "true"
      [] s = "OPTIONS"                -> "options"
      [] s = "RULES"                  -> "rules"
      [] s = "IPSET"                  -> "ipset"
      [] s = "GROUP"                  -> "group"
      [] s = "ALIASES"                -> "aliases"
      [] s = "IN"                     -> "in"
      [] s = "OUT"                    -> "out"
      [] s = "ACCEPT"                 -> "accept"
      [] s = "DROP"                   -> "drop"
      [] s = "Enable"                 -> "enable"
      [] s = "USER"                   -> "user"
      [] s = "NFS"                    -> "nfs"
      [] s = "Unprivileged"           -> "unprivileged"
      [] s = "Options"                -> "options"
      [] s = "SETTINGS"               -> "settings"
      [] s = "Container"              -> "container"
      [] s = "[CT:"                   -> "[ct:"
      [] s = "CTID:"                  -> "ctid:"
      [] OTHER                        -> s

\* String.prototype.toUpperCase; the words not listed are upper-case already
ToUpper(s) ==
    CASE s = "accept" -> "ACCEPT"
      [] s = "Accept" -> "ACCEPT"
      [] s = "drop"   -> "DROP"
      [] s = "reject" -> "REJECT"
      [] s = "in"     -> "IN"
      [] s = "out"    -> "OUT"
      [] s = "group"  -> "GROUP"
      [] OTHER        -> s

\* parseInt(s, 10): a number, or NaN (None)
ParseInt(s) ==
    CASE s = "0"          -> Some(0)
      [] s = "1"          -> Some(1)
      [] s = "3"          -> Some(3)
      [] s = "4"          -> Some(4)
      [] s = "6"          -> Some(6)
      [] s = "7"          -> Some(7)
      [] s = "10"         -> Some(10)
      [] s = "22"         -> Some(22)
      [] s = "2222"       -> Some(2222)
      [] s = "1893456000" -> Some(1893456000)
      [] OTHER            -> None

\* parseInt(s, 10) || null and parseInt(s, 10) || undefined: NaN and 0 are falsy
ParseIntOrNull(s) == IF ParseInt(s) = Some(0) THEN None ELSE ParseInt(s)

\* s.split(',') with every piece trimmed
SplitComma(s) ==
    CASE s = ""                   -> << "" >>
      [] s = "alice@pve,bob@pve"  -> << "alice@pve", "bob@pve" >>
      [] s = "backup,iso"         -> << "backup", "iso" >>
      [] s = "images,rootdir"     -> << "images", "rootdir" >>
      [] OTHER                    -> << s >>

RECURSIVE Join(_)
\* the pieces of a line put together again, one space between two pieces
Join(pieces) ==
    IF pieces = << >> THEN ""
    ELSE IF Len(pieces) = 1 THEN pieces[1]
    ELSE pieces[1] \o " " \o Join(Tail(pieces))

\* x || undefined on a string: the empty string is falsy
NonEmpty(s) == IF s = "" THEN None ELSE Some(s)

\* a line that starts with '#': its first piece is "#"
StartsWithHash(line) == line # << >> /\ Head(line) = "#"

\* lines = input.split('\n')
SplitLines(input) == IF input = << >> THEN << << >> >> ELSE input

\* !input || !input.trim()
IsBlankInput(input) == ~HasContent(input)

---------------------------------------------------------------------------
(* parseSSHConfig (parsers/sshd).  A line is its white-space separated     *)
(* words: << key, value word, ... >>.                                      *)

SSHDirective(result, key, value) ==
    CASE key = "permitrootlogin"        -> [ result EXCEPT !.permitRootLogin = Some(ToLower(value)) ]
      [] key = "passwordauthentication" -> [ result EXCEPT !.passwordAuthentication = Some(ToLower(value)) ]
      [] key = "pubkeyauthentication"   -> [ result EXCEPT !.pubkeyAuthentication = Some(ToLower(value)) ]
      [] key = "port"                   -> [ result EXCEPT !.port = ParseIntOrNull(value) ]
      [] key = "maxauthtries"           -> [ result EXCEPT !.maxAuthTries = ParseIntOrNull(value) ]
      [] key = "permitemptypasswords"   -> [ result EXCEPT !.permitEmptyPasswords = Some(ToLower(value)) ]
      [] key = "x11forwarding"          -> [ result EXCEPT !.x11Forwarding = Some(ToLower(value)) ]
      [] key = "usepam"                 -> [ result EXCEPT !.usePAM = Some(ToLower(value)) ]
      [] key = "protocol"               -> [ result EXCEPT !.protocol = Some(value) ]
      [] key = "logingracetime"         -> [ result EXCEPT !.loginGraceTime = Some(value) ]
      [] OTHER                          -> result

RECURSIVE SSHLoop_SkipsMatchLine(_, _)
\* variant: the Match line is skipped like a comment and the loop goes on
SSHLoop_SkipsMatchLine(lines, result) ==
    IF lines = << >> THEN result
    ELSE LET line == TrimLine(Head(lines))
         IN  IF line = << >> \/ StartsWithHash(line) THEN SSHLoop_SkipsMatchLine(Tail(lines), result)
             ELSE IF ToLower(line[1]) = "match" /\ Len(line) >= 2
             THEN SSHLoop_SkipsMatchLine(Tail(lines), result)
             ELSE IF Len(line) < 2 THEN SSHLoop_SkipsMatchLine(Tail(lines), result)
             ELSE LET key == ToLower(line[1])
                      value == Join(Tail(line))
                      stored == [ result EXCEPT
                                    !.rawDirectives = MapSet(result.rawDirectives, line[1], value) ]
                  IN  SSHLoop_SkipsMatchLine(Tail(lines), SSHDirective(stored, key, value))

RECURSIVE SSHLoop(_, _)
SSHLoop(lines, result) ==
    IF lines = << >> THEN result
    ELSE LET line == TrimLine(Head(lines))
         IN  IF line = << >> \/ StartsWithHash(line) THEN SSHLoop(Tail(lines), result)
             ELSE IF ToLower(line[1]) = "match" /\ Len(line) >= 2 THEN result
             ELSE IF Len(line) < 2 THEN SSHLoop(Tail(lines), result)
             ELSE LET key == ToLower(line[1])
                      value == Join(Tail(line))
                      stored == [ result EXCEPT
                                    !.rawDirectives = MapSet(result.rawDirectives, line[1], value) ]
                  IN  SSHLoop(Tail(lines), SSHDirective(stored, key, value))

parseSSHConfig(input) ==
    IF IsBlankInput(input) THEN ZeroSSH ELSE SSHLoop(SplitLines(input), ZeroSSH)

---------------------------------------------------------------------------
(* parseClusterFirewall (src/src/parsers/clusterFw.ts).  A line is its     *)
(* white-space separated words; a section header [NAME arg] is             *)
(* << "[", NAME, arg word, ..., "]" >>; the ':' after an option key is     *)
(* white space to the parser and is left out; the '|' of a disabled rule   *)
(* is a word of its own.                                                   *)

\* words that do not match \w+
NonWords ==
    { "|", "[", "]", "#", "-source", "-dest", "-p", "-dport", "-sport", "-i", "-log",
      "10.0.0.0/24", "192.168.1.0/24", "+mgmt", "-A", "-j", "-s", "-d", "--dport", "--sport",
      "*", ":", "=" }

IsWord(s) == s \notin NonWords

\* rest.match(/flag\s+(\S+)/): the word after the first `flag` that has a word after it
FlagValue(rest, flag) ==
    IF \E i \in DOMAIN rest : rest[i] = flag /\ i < Len(rest)
    THEN Some(rest[(CHOOSE i \in DOMAIN rest :
                       /\ rest[i] = flag /\ i < Len(rest)
                       /\ \A j \in 1..(i - 1) : rest[j] # flag) + 1])
    ELSE None

\* rest.match(/#\s*(.+)$/): the text after the first '#'
CommentOf(rest) ==
    IF \E i \in DOMAIN rest : rest[i] = "#" /\ i < Len(rest)
    THEN LET i == CHOOSE k \in DOMAIN rest :
                      /\ rest[k] = "#" /\ k < Len(rest)
                      /\ \A j \in 1..(k - 1) : rest[j] # "#"
         IN  Some(Join(SubSeq(rest, i + 1, Len(rest))))
    ELSE None

\* the rule of a line, or None when the line does not match direction and action
parseFirewallRule(line) ==
    LET enabled == ~(line # << >> /\ Head(line) = "|")
        ruleLine == IF enabled THEN line ELSE Tail(line)
    IN  IF Len(ruleLine) < 2 \/ ToUpper(ruleLine[1]) \notin { "IN", "OUT", "GROUP" }
        THEN None
        ELSE LET rest == SubSeq(ruleLine, 3, Len(ruleLine))
             IN  Some([ type |-> ToUpper(ruleLine[1]),
                        action |-> ToUpper(ruleLine[2]),
                        source |-> FlagValue(rest, "-source"),
                        dest |-> FlagValue(rest, "-dest"),
                        proto |-> FlagValue(rest, "-p"),
                        dport |-> FlagValue(rest, "-dport"),
                        sport |-> FlagValue(rest, "-sport"),
                        iface |-> FlagValue(rest, "-i"),
                        comment |-> CommentOf(rest),
                        enable |-> enabled ])

IsSectionHeader(line) == Len(line) >= 3 /\ line[1] = "[" /\ line[Len(line)] = "]" /\ IsWord(line[2])

\* the section after a header line; a name that is none of the five leaves it as it was
SectionAfter(sectionName, currentSection) ==
    IF sectionName \in { "options", "rules", "ipset", "group", "aliases" }
    THEN sectionName ELSE currentSection

FirewallOption(result, key, value) ==
    LET stored == [ result EXCEPT !.options = MapSet(result.options, key, value) ]
    IN  CASE key = "enable"     -> [ stored EXCEPT !.enabled =
                                        Some(value = "1" \/ ToLower(value) = "true") ]
          [] key = "policy_in"  -> [ stored EXCEPT !.policyIn = Some(ToUpper(value)) ]
          [] key = "policy_out" -> [ stored EXCEPT !.policyOut = Some(ToUpper(value)) ]
          [] OTHER              -> stored

RECURSIVE FirewallLoop(_, _, _, _)
\* currentSection is "none" before the first header; currentIPSet is optional
FirewallLoop(lines, result, currentSection, currentIPSet) ==
    IF lines = << >>
    THEN IF currentIPSet # None
         THEN [ result EXCEPT !.ipSets = Append(result.ipSets, Val(currentIPSet)) ]
         ELSE result
    ELSE LET line == TrimLine(Head(lines))
             rest == Tail(lines)
         IN  IF line = << >> \/ StartsWithHash(line)
             THEN FirewallLoop(rest, result, currentSection, currentIPSet)
             ELSE IF IsSectionHeader(line)
             THEN LET saved == IF currentIPSet # None
                               THEN [ result EXCEPT !.ipSets = Append(result.ipSets, Val(currentIPSet)) ]
                               ELSE result
                      sectionName == ToLower(line[2])
                      setName == IF Len(line) > 3 THEN Join(SubSeq(line, 3, Len(line) - 1))
                                 ELSE "default"
                  IN  FirewallLoop(rest, saved, SectionAfter(sectionName, currentSection),
                          IF sectionName = "ipset"
                          THEN Some([ name |-> setName, entries |-> << >> ])
                          ELSE None)
             ELSE IF currentSection = "options"
             THEN IF IsWord(line[1]) /\ Len(line) >= 2
                  THEN FirewallLoop(rest,
                           FirewallOption(result, ToLower(line[1]), Join(Tail(line))),
                           currentSection, currentIPSet)
                  ELSE FirewallLoop(rest, result, currentSection, currentIPSet)
             ELSE IF currentSection \in { "rules", "group" }
             THEN LET rule == parseFirewallRule(line)
                  IN  FirewallLoop(rest,
                          IF rule # None
                          THEN [ result EXCEPT !.rules = Append(result.rules, Val(rule)) ]
                          ELSE result,
                          currentSection, currentIPSet)
             ELSE IF currentSection = "ipset" /\ currentIPSet # None
             THEN FirewallLoop(rest, result, currentSection,
                      Some([ Val(currentIPSet) EXCEPT
                               !.entries = Append(Val(currentIPSet).entries, line[1]) ]))
             ELSE FirewallLoop(rest, result, currentSection, currentIPSet)

parseClusterFirewall(input) ==
    IF IsBlankInput(input) THEN ZeroFirewall
    ELSE FirewallLoop(SplitLines(input), ZeroFirewall, "none", None)

---------------------------------------------------------------------------
(* parseUserConfig (parsers/userCfg).  A line is line.split(':'): the      *)
(* tuple of its colon-separated fields, the record type first.             *)

\* parts[k] || '' with the source's 0-based index: a missing field is ''
Part(parts, k) == IF k + 1 <= Len(parts) THEN parts[k + 1] ELSE ""

\* s.startsWith('x!')
StartsWithXBang(s) == s \in { "x!oath", "x!yubico", "x!" }

\* parts[k] ? parseInt(parts[k], 10) || undefined : undefined
ExpireOf(s) == IF s = "" THEN None ELSE ParseIntOrNull(s)

\* parts[k] ? parts[k] === '1' : undefined
FlagOf(s) == IF s = "" THEN None ELSE Some(s = "1")

UserLine(result, parts) ==
    LET user == [ userid |-> Part(parts, 1),
                  enable |-> FlagOf(Part(parts, 2)),
                  expire |-> ExpireOf(Part(parts, 3)),
                  firstName |-> NonEmpty(Part(parts, 4)),
                  lastName |-> NonEmpty(Part(parts, 5)),
                  email |-> NonEmpty(Part(parts, 6)),
                  comment |-> NonEmpty(Part(parts, 7)),
                  tfa |-> IF StartsWithXBang(Part(parts, 8)) THEN Some(Part(parts, 8)) ELSE None ]
    IN  IF user.userid # "" THEN [ result EXCEPT !.users = Append(result.users, user) ] ELSE result

GroupLine(result, parts) ==
    LET group == [ groupid |-> Part(parts, 1),
                   users |-> IF Part(parts, 2) # ""
                             THEN SelectSeq(SplitComma(Part(parts, 2)), LAMBDA u : u # "")
                             ELSE << >>,
                   comment |-> NonEmpty(Part(parts, 3)) ]
    IN  IF group.groupid # "" THEN [ result EXCEPT !.groups = Append(result.groups, group) ] ELSE result

RoleLine(result, parts) ==
    IF Part(parts, 1) # ""
    THEN [ result EXCEPT !.roles = MapSet(result.roles, Part(parts, 1), Part(parts, 2)) ]
    ELSE result

AclLine(result, parts) ==
    LET acl == PVEAcl(Part(parts, 1) = "1",
                      IF Part(parts, 2) # "" THEN Part(parts, 2) ELSE "/",
                      Part(parts, 3), Part(parts, 4))
    IN  IF acl.ugid # "" THEN [ result EXCEPT !.acls = Append(result.acls, acl) ] ELSE result

TokenLine(result, parts) ==
    LET token == [ userid |-> Part(parts, 1), tokenId |-> Part(parts, 2),
                   expire |-> ExpireOf(Part(parts, 3)), privsep |-> FlagOf(Part(parts, 4)),
                   comment |-> NonEmpty(Part(parts, 5)) ]
    IN  IF token.userid # "" /\ token.tokenId # ""
        THEN [ result EXCEPT !.tokens = Append(result.tokens, token) ] ELSE result

\* a tfa line marks the first user parsed so far that has its id, or pushes a
\* user made of the id and the type only
TfaLine(result, parts) ==
    LET tfaUserId == Part(parts, 1)
        tfaType == IF Part(parts, 2) # "" THEN Part(parts, 2) ELSE "totp"
        users == result.users
    IN  IF \E i \in DOMAIN users : users[i].userid = tfaUserId
        THEN LET i == CHOOSE k \in DOMAIN users :
                          /\ users[k].userid = tfaUserId
                          /\ \A j \in 1..(k - 1) : users[j].userid # tfaUserId
             IN  [ result EXCEPT !.users[i].tfa = Some(tfaType) ]
        ELSE [ result EXCEPT !.users = Append(users, PVEUser(tfaUserId, None, Some(tfaType))) ]

RECURSIVE UserConfigLoop(_, _)
UserConfigLoop(lines, result) ==
    IF lines = << >> THEN result
    ELSE LET parts == TrimLine(Head(lines))
             type == IF parts = << >> THEN "" ELSE ToLower(parts[1])
             next == CASE type = "user"  -> UserLine(result, parts)
                       [] type = "group" -> GroupLine(result, parts)
                       [] type = "role"  -> RoleLine(result, parts)
                       [] type = "acl"   -> AclLine(result, parts)
                       [] type = "token" -> TokenLine(result, parts)
                       [] type = "tfa"   -> TfaLine(result, parts)
                       [] OTHER          -> result
         IN  IF parts = << >> \/ StartsWithHash(parts)
             THEN UserConfigLoop(Tail(lines), result)
             ELSE UserConfigLoop(Tail(lines), next)

\* variant: the later entry replaces the first entry of the same userid
MergeUser_Overwrites(existing, u) == u

\* the merge of a later entry u into the first entry of the same userid
MergeUser(existing, u) ==
    [ existing EXCEPT
        !.tfa = IF u.tfa # None THEN u.tfa ELSE @,
        !.email = IF u.email # None THEN u.email ELSE @,
        !.firstName = IF u.firstName # None THEN u.firstName ELSE @,
        !.lastName = IF u.lastName # None THEN u.lastName ELSE @,
        !.enable = IF u.enable # None THEN u.enable ELSE @,
        !.expire = IF u.expire # None THEN u.expire ELSE @,
        !.comment = IF u.comment # None THEN u.comment ELSE @ ]

\* variant: no second pass, the users stay as the loop pushed them
DedupeUsers_KeepsAll(users, userMap) == userMap \o users

RECURSIVE DedupeUsers(_, _)
\* userMap is the Map in insertion order: a sequence of users of distinct ids
DedupeUsers(users, userMap) ==
    IF users = << >> THEN userMap
    ELSE LET u == Head(users)
         IN  IF \E i \in DOMAIN userMap : userMap[i].userid = u.userid
             THEN LET i == CHOOSE k \in DOMAIN userMap : userMap[k].userid = u.userid
                  IN  DedupeUsers(Tail(users), [ userMap EXCEPT ![i] = MergeUser(@, u) ])
             ELSE DedupeUsers(Tail(users), Append(userMap, u))

parseUserConfig(input) ==
    IF IsBlankInput(input) THEN ZeroAuth
    ELSE LET result == UserConfigLoop(SplitLines(input), ZeroAuth)
         IN  [ result EXCEPT !.users = DedupeUsers(result.users, << >>) ]

---------------------------------------------------------------------------
(* parseIptables (src/src/parsers/iptables.ts).  A line is its white-space *)
(* separated words; the '*' of a table line, the ':' of a chain line and   *)
(* the ')' that closes "(policy X)" are words of their own.                *)

\* optParts.join(' ')
OptionsOf(dport, sport) ==
    IF dport # None /\ sport # None THEN ("dpt:" \o Val(dport)) \o " " \o ("spt:" \o Val(sport))
    ELSE IF dport # None THEN "dpt:" \o Val(dport)
    ELSE IF sport # None THEN "spt:" \o Val(sport)
    ELSE ""

\* x matched, or the default d
OrDefault(x, d) == IF x # None THEN Val(x) ELSE d

parseIptablesRule(ruleText, rawLine) ==
    [ target |-> OrDefault(FlagValue(ruleText, "-j"), ""),
      protocol |-> OrDefault(FlagValue(ruleText, "-p"), "all"),
      source |-> OrDefault(FlagValue(ruleText, "-s"), "0.0.0.0/0"),
      destination |-> OrDefault(FlagValue(ruleText, "-d"), "0.0.0.0/0"),
      options |-> OptionsOf(FlagValue(ruleText, "--dport"), FlagValue(ruleText, "--sport")),
      raw |-> Join(rawLine) ]

\* chainMap.has(name)
HasChain(chainMap, name) == \E i \in DOMAIN chainMap : chainMap[i].name = name

\* the position of the chain of a name in the Map
ChainIndex(chainMap, name) == CHOOSE i \in DOMAIN chainMap : chainMap[i].name = name

\* chainMap.set(chain.name, chain): a key the Map has keeps its place and gets the new value
ChainMapSet(chainMap, chain) ==
    IF HasChain(chainMap, chain.name)
    THEN [ chainMap EXCEPT ![ChainIndex(chainMap, chain.name)] = chain ]
    ELSE Append(chainMap, chain)

RECURSIVE SaveFormatLoop(_, _)
SaveFormatLoop(lines, chainMap) ==
    IF lines = << >> THEN chainMap
    ELSE LET line == TrimLine(Head(lines))
             rest == Tail(lines)
         IN  IF line = << >> \/ StartsWithHash(line) \/ line = << "COMMIT" >> \/ Head(line) = "*"
             THEN SaveFormatLoop(rest, chainMap)
             ELSE IF Head(line) = ":" /\ Len(line) >= 3
             THEN SaveFormatLoop(rest,
                      ChainMapSet(chainMap, [ name |-> line[2], policy |-> line[3], rules |-> << >> ]))
             ELSE IF Head(line) = "-A" /\ Len(line) >= 3
             THEN LET chainName == line[2]
                      ensured == IF HasChain(chainMap, chainName) THEN chainMap
                                 ELSE Append(chainMap, [ name |-> chainName, policy |-> "-",
                                                         rules |-> << >> ])
                      rule == parseIptablesRule(SubSeq(line, 3, Len(line)), line)
                      i == ChainIndex(ensured, chainName)
                  IN  SaveFormatLoop(rest, [ ensured EXCEPT ![i].rules = Append(@, rule) ])
             ELSE SaveFormatLoop(rest, chainMap)

parseIptablesSaveFormat(lines, result) ==
    [ result EXCEPT !.chains = SaveFormatLoop(lines, << >>) ]

\* /^Chain\s+(\S+)\s+\(policy\s+(\S+)\)/
IsPolicyChainHeader(line) ==
    Len(line) >= 5 /\ line[1] = "Chain" /\ line[3] = "(policy" /\ line[5] = ")"

\* /^Chain\s+(\S+)/
IsChainHeader(line) == Len(line) >= 2 /\ line[1] = "Chain"

\* result.chains with the chain in progress pushed, when there is one
PushChain(chains, currentChain) ==
    IF currentChain # None THEN Append(chains, Val(currentChain)) ELSE chains

RECURSIVE ListFormatLoop(_, _, _, _)
ListFormatLoop(lines, chains, currentChain, headerSkipped) ==
    IF lines = << >> THEN PushChain(chains, currentChain)
    ELSE LET line == TrimLine(Head(lines))
             rest == Tail(lines)
         IN  IF line = << >> THEN ListFormatLoop(rest, chains, currentChain, FALSE)
             ELSE IF IsPolicyChainHeader(line)
             THEN ListFormatLoop(rest, PushChain(chains, currentChain),
                      Some([ name |-> line[2], policy |-> line[4], rules |-> << >> ]), FALSE)
             ELSE IF IsChainHeader(line)
             THEN ListFormatLoop(rest, PushChain(chains, currentChain),
                      Some([ name |-> line[2], policy |-> "-", rules |-> << >> ]), FALSE)
             ELSE IF currentChain # None /\ ~headerSkipped
                     /\ Len(line) >= 2 /\ line[1] = "target" /\ line[2] = "prot"
             THEN ListFormatLoop(rest, chains, currentChain, TRUE)
             ELSE IF currentChain # None /\ headerSkipped /\ Len(line) >= 5
             THEN ListFormatLoop(rest, chains,
                      Some([ Val(currentChain) EXCEPT !.rules = Append(@,
                               [ target |-> line[1], protocol |-> line[2], source |-> line[4],
                                 destination |-> line[5],
                                 options |-> Join(SubSeq(line, 6, Len(line))),
                                 raw |-> Join(line) ]) ]),
                      headerSkipped)
             ELSE ListFormatLoop(rest, chains, currentChain, headerSkipped)

parseIptablesListFormat(lines, result) ==
    [ result EXCEPT !.chains = ListFormatLoop(lines, result.chains, None, FALSE) ]

\* variant: the two formats are not exclusive, a dump that shows both is parsed as both
parseIptables_BothFormats(input) ==
    IF IsBlankInput(input) THEN ZeroIptables
    ELSE LET lines == SplitLines(input)
             isIptablesSave == \E i \in DOMAIN lines :
                                  lines[i] # << >> /\ Head(lines[i]) \in { "*", ":" }
             isIptablesL == \E i \in DOMAIN lines : IsChainHeader(lines[i])
             saved == IF isIptablesSave THEN parseIptablesSaveFormat(lines, ZeroIptables)
                      ELSE ZeroIptables
         IN  IF isIptablesL THEN parseIptablesListFormat(lines, saved) ELSE saved

\* the format is detected on the lines as they are, not trimmed
parseIptables(input) ==
    IF IsBlankInput(input) THEN ZeroIptables
    ELSE LET lines == SplitLines(input)
             isIptablesSave == \E i \in DOMAIN lines :
                                  lines[i] # << >> /\ Head(lines[i]) \in { "*", ":" }
             isIptablesL == \E i \in DOMAIN lines : IsChainHeader(lines[i])
         IN  IF isIptablesSave THEN parseIptablesSaveFormat(lines, ZeroIptables)
             ELSE IF isIptablesL THEN parseIptablesListFormat(lines, ZeroIptables)
             ELSE ZeroIptables

---------------------------------------------------------------------------
(* parseStorageConfig (src/src/parsers/iptables.ts, lines 189-282).  A     *)
(* stanza header "type: id" is << type, ":", id >>; an option line is      *)
(* << Indent, key, value word, ... >>.                                     *)

\* rawLine.match(/^(\S+):\s+(\S+)\s*$/): not indented, one word after the colon
IsStanzaHeader(rawLine) ==
    Len(rawLine) = 3 /\ rawLine[1] # Indent /\ rawLine[2] = ":" /\ rawLine[3] # ":"

StorageOption(entry, key, value) ==
    LET stored == [ entry EXCEPT !.rawOptions = MapSet(entry.rawOptions, key, value) ]
    IN  CASE key = "path"         -> [ stored EXCEPT !.path = Some(value) ]
          [] key = "server"       -> [ stored EXCEPT !.server = Some(value) ]
          [] key = "export"       -> [ stored EXCEPT !.export = Some(value) ]
          [] key = "share"        -> [ stored EXCEPT !.share = Some(value) ]
          [] key = "content"      -> [ stored EXCEPT !.content = Some(SplitComma(value)) ]
          [] key = "options"      -> [ stored EXCEPT !.options = Some(value) ]
          [] key = "mountoptions" -> [ stored EXCEPT !.mountOptions = Some(value) ]
          [] key = "mount"        -> [ stored EXCEPT !.mountOptions = Some(value) ]
          [] key = "domain"       -> [ stored EXCEPT !.domain = Some(value) ]
          [] key = "username"     -> [ stored EXCEPT !.username = Some(value) ]
          [] key = "maxfiles"     -> [ stored EXCEPT !.maxfiles = ParseIntOrNull(value) ]
          [] key = "subdir"       -> [ stored EXCEPT !.subdir = Some(value) ]
          [] OTHER                -> stored

\* trimmed.match(/^(\S+)\s+(.+)$/): the key and the value of an indented line, when
\* it has both; a ':' that follows the first word is part of the key
StorageKeyValue(trimmed) ==
    IF Len(trimmed) >= 2 /\ trimmed[2] = ":"
    THEN IF Len(trimmed) >= 3
         THEN Some([ key |-> ToLower(trimmed[1]) \o ":", value |-> Join(SubSeq(trimmed, 3, Len(trimmed))) ])
         ELSE None
    ELSE IF Len(trimmed) >= 2
    THEN Some([ key |-> ToLower(trimmed[1]), value |-> Join(Tail(trimmed)) ])
    ELSE None

\* result.entries with the entry in progress pushed, when there is one
PushEntry(entries, currentEntry) ==
    IF currentEntry # None THEN Append(entries, Val(currentEntry)) ELSE entries

RECURSIVE StorageLoop_DropsLast(_, _, _)
\* variant: an entry is pushed by the next header only, the one in progress at the end
\* of the input is not
StorageLoop_DropsLast(lines, entries, currentEntry) ==
    IF lines = << >> THEN entries
    ELSE LET rawLine == Head(lines)
             trimmed == TrimLine(rawLine)
             rest == Tail(lines)
         IN  IF trimmed = << >> \/ StartsWithHash(trimmed)
             THEN StorageLoop_DropsLast(rest, entries, currentEntry)
             ELSE IF IsStanzaHeader(rawLine)
             THEN StorageLoop_DropsLast(rest, PushEntry(entries, currentEntry),
                      Some(StorageEntry(ToLower(rawLine[1]), rawLine[3])))
             ELSE IF currentEntry # None /\ Head(rawLine) = Indent
                     /\ StorageKeyValue(trimmed) # None
             THEN LET kv == Val(StorageKeyValue(trimmed))
                  IN  StorageLoop_DropsLast(rest, entries,
                          Some(StorageOption(Val(currentEntry), kv.key, kv.value)))
             ELSE StorageLoop_DropsLast(rest, entries, currentEntry)

RECURSIVE StorageLoop(_, _, _)
StorageLoop(lines, entries, currentEntry) ==
    IF lines = << >> THEN PushEntry(entries, currentEntry)
    ELSE LET rawLine == Head(lines)
             trimmed == TrimLine(rawLine)
             rest == Tail(lines)
         IN  IF trimmed = << >> \/ StartsWithHash(trimmed)
             THEN StorageLoop(rest, entries, currentEntry)
             ELSE IF IsStanzaHeader(rawLine)
             THEN StorageLoop(rest, PushEntry(entries, currentEntry),
                      Some(StorageEntry(ToLower(rawLine[1]), rawLine[3])))
             ELSE IF currentEntry # None /\ Head(rawLine) = Indent
                     /\ StorageKeyValue(trimmed) # None
             THEN LET kv == Val(StorageKeyValue(trimmed))
                  IN  StorageLoop(rest, entries,
                          Some(StorageOption(Val(currentEntry), kv.key, kv.value)))
             ELSE StorageLoop(rest, entries, currentEntry)

parseStorageConfig(input) ==
    IF IsBlankInput(input) THEN ZeroStorage
    ELSE [ ZeroStorage EXCEPT !.entries = StorageLoop(SplitLines(input), << >>, None) ]

---------------------------------------------------------------------------
(* parseLXCConfig (src/src/parsers/iptables.ts, lines 297-443).  A line    *)
(* "key: value" is << key, ":", value word, ... >>, a line "key = value"   *)
(* is << key, "=", value word, ... >>; a marker line is "#" or "[CT:"      *)
(* followed by the words of the marker.                                    *)

\* \d+
IsDigits(s) == s \in { "100", "101", "102", "200" }

\* the container id a line announces under one of the five header patterns, or None
HeaderId(line) ==
    IF Len(line) >= 3 /\ line[1] = "#" /\ ToLower(line[2]) = "container" /\ IsDigits(line[3])
        THEN Some(line[3])
    ELSE IF Len(line) >= 3 /\ ToLower(line[1]) = "[ct:" /\ IsDigits(line[2]) /\ line[3] = "]"
        THEN Some(line[2])
    ELSE IF Len(line) >= 4 /\ line[1] = "#" /\ ToLower(line[2]) = "/etc/pve/lxc/"
            /\ IsDigits(line[3]) /\ ToLower(line[4]) = ".conf"
        THEN Some(line[3])
    ELSE IF Len(line) >= 3 /\ line[1] = "#" /\ ToLower(line[2]) = "ctid:" /\ IsDigits(line[3])
        THEN Some(line[3])
    ELSE IF Len(line) >= 4 /\ line[1] = "#" /\ line[2] = "===" /\ IsDigits(line[3])
            /\ line[4] = "==="
        THEN Some(line[3])
    ELSE None

\* blocks with the block in progress pushed, when it has an id and a line
PushBlock(blocks, currentId, currentLines) ==
    IF currentId # None /\ currentLines # << >>
    THEN Append(blocks, [ id |-> Val(currentId), lines |-> currentLines ])
    ELSE blocks

RECURSIVE SplitLoop(_, _, _, _)
SplitLoop(lines, blocks, currentId, currentLines) ==
    IF lines = << >> THEN PushBlock(blocks, currentId, currentLines)
    ELSE LET line == Head(lines)
         IN  IF HeaderId(line) # None
             THEN SplitLoop(Tail(lines), PushBlock(blocks, currentId, currentLines),
                            HeaderId(line), << >>)
             ELSE SplitLoop(Tail(lines), blocks, currentId, Append(currentLines, line))

splitIntoContainerBlocks(input) == SplitLoop(SplitLines(input), << >>, None, << >>)

\* the features value switches nesting on: some feature is nesting=1 or nesting=true
NestingOn(value) ==
    value \in { "nesting=1", "nesting=true", "nesting=1,keyctl=1", "keyctl=1,nesting=1" }

\* /^mp\d+$/
IsMountKey(key) == key \in { "mp0", "mp1" }

\* /^(lxc\.\S+)/
IsLxcKey(s) ==
    s \in { "lxc.idmap", "lxc.mount.entry", "lxc.cap.drop", "lxc.cap.keep",
            "lxc.apparmor.profile" }

\* the "Key: value" branch of a block line
ProxmoxDirective(container, key, value) ==
    CASE key = "unprivileged" -> [ container EXCEPT !.unprivileged =
                                     Some(value = "1" \/ ToLower(value) = "true") ]
      [] key = "hostname"     -> [ container EXCEPT !.hostname = Some(value) ]
      [] key = "features"     -> [ container EXCEPT !.nesting = @ \/ NestingOn(value) ]
      [] OTHER                -> IF IsMountKey(key)
                                 THEN [ container EXCEPT !.mountPoints = Append(@, value) ]
                                 ELSE container

\* the "lxc.key = value" branch of a block line
LxcDirective(container, key, value) ==
    CASE key = "lxc.idmap"       -> [ container EXCEPT !.unprivileged = Some(TRUE) ]
      [] key = "lxc.mount.entry" -> [ container EXCEPT !.mountPoints = Append(@, value) ]
      [] key = "lxc.cap.drop"    -> [ container EXCEPT !.capabilities = Append(@, "drop:" \o value) ]
      [] key = "lxc.cap.keep"    -> [ container EXCEPT !.capabilities = Append(@, "keep:" \o value) ]
      [] OTHER                   -> container

\* the text of a trimmed line: a ':' is written right after the key
RenderLine(line) ==
    IF Len(line) >= 3 /\ line[2] = ":" THEN (line[1] \o ": ") \o Join(SubSeq(line, 3, Len(line)))
    ELSE Join(line)

RECURSIVE BlockLoop(_, _)
BlockLoop(lines, container) ==
    IF lines = << >> THEN container
    ELSE LET line == TrimLine(Head(lines))
             value == Join(SubSeq(line, 3, Len(line)))
             pushed == [ container EXCEPT !.rawLines = Append(@, RenderLine(line)) ]
         IN  IF line = << >> \/ StartsWithHash(line) THEN BlockLoop(Tail(lines), container)
             ELSE IF Len(line) >= 3 /\ line[1] # ":" /\ line[2] = ":"
             THEN BlockLoop(Tail(lines), ProxmoxDirective(pushed, ToLower(line[1]), value))
             ELSE IF Len(line) >= 3 /\ IsLxcKey(line[1]) /\ line[2] = "="
             THEN BlockLoop(Tail(lines), LxcDirective(pushed, ToLower(line[1]), value))
             ELSE BlockLoop(Tail(lines), pushed)

parseContainerBlock(id, lines) == BlockLoop(lines, ContainerConfig(id, None, FALSE))

RECURSIVE ParseBlocks(_)
ParseBlocks(blocks) ==
    IF blocks = << >> THEN << >>
    ELSE << parseContainerBlock(Head(blocks).id, Head(blocks).lines) >> \o ParseBlocks(Tail(blocks))

\* variant: no test for a text of white space, and the block made of the whole input is
\* pushed whether it holds a line or not
parseLXCConfig_AlwaysOneContainer(input) ==
    IF input = << >> THEN ZeroContainers
    ELSE LET containers == ParseBlocks(splitIntoContainerBlocks(input))
             whole == parseContainerBlock("unknown", SplitLines(input))
         IN  IF containers # << >> THEN [ containers |-> containers ]
             ELSE [ containers |-> << whole >> ]

parseLXCConfig(input) ==
    IF IsBlankInput(input) THEN ZeroContainers
    ELSE LET containers == ParseBlocks(splitIntoContainerBlocks(input))
             whole == parseContainerBlock("unknown", SplitLines(input))
         IN  IF containers # << >> THEN [ containers |-> containers ]
             ELSE IF whole.rawLines # << >> THEN [ containers |-> << whole >> ]
             ELSE ZeroContainers

---------------------------------------------------------------------------
(* parseAllConfigs (parsers/index): every sub-model is present in the      *)
(* result, the zero value of its parser when the text is empty.            *)

\* acl.ugid.includes('!')
IncludesBang(ugid) == ugid \in { "root@pam!automation", "alice@pve!ci", "!" }

parseAllConfigs(inputs) ==
    LET raw == [ ft \in ConfigFileType |-> inputs[ft] ]
        auth == parseUserConfig(raw["user.cfg"])
        api == [ tokens |-> auth.tokens,
                 tokenAcls |-> SelectSeq(auth.acls, LAMBDA acl :
                     \E i \in DOMAIN auth.tokens :
                         acl.ugid = auth.tokens[i].userid \/ IncludesBang(acl.ugid)) ]
    IN  ParsedConfig(Some(parseSSHConfig(raw["sshd_config"])),
                     Some(parseClusterFirewall(raw["cluster.fw"])),
                     Some(auth),
                     Some(parseLXCConfig(raw["lxc.conf"])),
                     Some(api),
                     Some(parseStorageConfig(raw["storage.cfg"])),
                     Some(parseIptables(raw["iptables"])),
                     raw)

---------------------------------------------------------------------------
(* Raw texts of the six file types: the empty text, a text of white space, *)
(* and texts that exercise the branches of each parser.                    *)

EmptyText == << >>
BlankText == << << Indent >>, << >> >>

SshTexts ==
    { EmptyText, BlankText,
      << << "#", "hardened" >>, << "PermitRootLogin", "no" >>, << "PasswordAuthentication", "no" >>,
         << "Port", "2222" >>, << "MaxAuthTries", "3" >> >>,
      << << "PermitRootLogin", "Yes" >>, << "PasswordAuthentication", "yes" >>,
         << "Port", "22" >>, << "MaxAuthTries", "10" >> >>,
      << << "Port", "2222" >>, << "Match", "User", "git" >>, << "PermitRootLogin", "no" >> >>,
      << << Indent, "PERMITROOTLOGIN", "prohibit-password" >>, << "Port", "0" >>, << "UsePAM" >> >> }

FirewallTexts ==
    { EmptyText, BlankText,
      << << "[", "OPTIONS", "]" >>, << "enable", "1" >>, << "policy_in", "drop" >>,
         << "[", "RULES", "]" >>, << "IN", "ACCEPT", "-p", "tcp", "-dport", "22", "#", "ssh" >>,
         << "|", "IN", "DROP" >> >>,
      << << "[", "OPTIONS", "]" >>, << "Enable", "True" >>, << "policy_in", "ACCEPT" >> >>,
      << << "[", "OPTIONS", "]" >>, << "enable", "0" >>, << "policy_in", "DROP" >>,
         << "[", "IPSET", "mgmt", "]" >>, << "10.0.0.0/24" >> >>,
      << << "[", "OPTIONS", "]" >>, << "enable", "yes" >> >>,
      << << "[", "OPTIONS", "]" >>, << "policy_in", "DROP" >>,
         << "[", "SETTINGS", "]" >>, << "enable", "1" >> >>,
      << << "enable", "1" >>, << "[", "RULES", "]" >>, << "in", "accept" >>, << "enable", "1" >> >> }

IptablesTexts ==
    { EmptyText,
      << << "*", "filter" >>, << ":", "INPUT", "ACCEPT", "[0:0]" >>, << ":", "FORWARD", "DROP", "[0:0]" >>,
         << "-A", "INPUT", "-p", "tcp", "--dport", "22", "-j", "ACCEPT" >>, << "COMMIT" >> >>,
      << << "*", "filter" >>, << ":", "INPUT", "DROP", "[0:0]" >>,
         << "-A", "f2b", "-s", "10.0.0.0/24", "-j", "DROP" >>, << "COMMIT" >> >>,
      << << "Chain", "INPUT", "(policy", "ACCEPT", ")" >>,
         << "target", "prot", "opt", "source", "destination" >>,
         << "ACCEPT", "tcp", "--", "0.0.0.0/0", "0.0.0.0/0", "tcp", "dpt:22" >>,
         << >>,
         << "Chain", "f2b", "(1", "references)" >> >>,
      << << "Chain", "INPUT", "(policy", "DROP", ")" >> >>,
      << << "iptables:", "command", "not", "found" >> >> }

UserTexts ==
    { EmptyText,
      << << "user", "root@pam", "1", "0", "", "", "", "", "" >>,
         << "user", "alice@pve", "1", "0", "Alice", "", "alice@example.org", "", "x!oath", "" >>,
         << "tfa", "root@pam", "totp", "" >> >>,
      << << "tfa", "alice@pve", "", "" >>,
         << "user", "alice@pve", "1", "1893456000", "", "", "", "", "" >>,
         << "user", "bob@pve", "0" >>,
         << "group", "admins", "alice@pve,bob@pve", "" >>,
         << "role", "Ops", "VM.Audit", "" >>,
         << "acl", "1", "/", "alice@pve", "Administrator", "" >> >>,
      << << "user", "root@pam", "1", "0", "", "", "", "", "" >>,
         << "token", "root@pam", "automation", "0", "0", "" >>,
         << "token", "alice@pve", "ci", "1893456000", "1", "" >>,
         << "acl", "1", "/", "root@pam!automation", "Administrator", "" >>,
         << "acl", "0", "", "alice@pve", "PVEAuditor", "" >>,
         << "#", "trailer" >> >>,
      << << "user", "alice@pve", "1" >>,
         << "acl", "1", "/", "alice@pve!ci", "Administrator", "" >>,
         << "acl", "1", "/", "alice@pve", "PVEAuditor", "" >> >> }

LxcTexts ==
    { EmptyText,
      << << "#", "Container", "100" >>, << "hostname", ":", "web" >>, << "unprivileged", ":", "1" >>,
         << "features", ":", "nesting=1,keyctl=1" >>,
         << "#", "Container", "101" >>, << "hostname", ":", "db" >>, << "mp0", ":", "/srv" >> >>,
      << << "[CT:", "200", "]" >>, << "lxc.idmap", "=", "u", "0", "100000", "65536" >>,
         << "lxc.cap.drop", "=", "sys_admin" >> >>,
      << << "hostname", ":", "solo" >>, << "unprivileged", ":", "0" >>,
         << "features", ":", "nesting=true" >> >>,
      << << "#", "only", "a", "comment" >> >> }

StorageTexts ==
    { EmptyText,
      << << "dir", ":", "local" >>, << Indent, "path", "/var/lib/vz" >>,
         << Indent, "content", "backup,iso" >>, << Indent, "maxfiles", "3" >> >>,
      << << "NFS", ":", "backup" >>, << Indent, "server", "10.0.0.5" >>,
         << Indent, "export", "/srv/backup" >>, << Indent, "options", "rw,no_root_squash" >>,
         << >>,
         << "cifs", ":", "share" >>, << Indent, "options", "guest" >>, << "stray", "line" >> >>,
      << << Indent, "nfs", ":", "indented" >>, << Indent, "options", "no_root_squash" >> >> }

\* the raw texts of an audit, one per file type
RawInputs ==
    { [ ft \in ConfigFileType |->
          CASE ft = "sshd_config" -> ssh
            [] ft = "cluster.fw"  -> fw
            [] ft = "iptables"    -> ipt
            [] ft = "user.cfg"    -> usr
            [] ft = "lxc.conf"    -> lxc
            [] ft = "storage.cfg" -> sto ] :
          ssh \in SshTexts, fw \in FirewallTexts, ipt \in IptablesTexts,
          usr \in UserTexts, lxc \in LxcTexts, sto \in StorageTexts }

---------------------------------------------------------------------------
(* Inputs of the engine calls: ParsedConfig values, each sub-model optional *)

SSHOf(rootLogin, passwordAuth, port, maxTries) ==
    [ ZeroSSH EXCEPT !.permitRootLogin = rootLogin, !.passwordAuthentication = passwordAuth,
                     !.port = port, !.maxAuthTries = maxTries ]

FirewallOf(enabled, policyIn, rules) ==
    [ ZeroFirewall EXCEPT !.enabled = enabled, !.policyIn = policyIn, !.rules = rules ]

SSHModels ==
    { None } \cup
    { Some(SSHOf(r, p, port, m)) :
          r \in { None, Some("yes"), Some("no"), Some("prohibit-password") },
          p \in { None, Some("yes"), Some("no") },
          port \in { None, Some(22), Some(2222) },
          m \in { None, Some(4), Some(6), Some(7) } }

FirewallModels ==
    { None } \cup
    { Some(FirewallOf(e, p, r)) :
          e \in { None, Some(TRUE), Some(FALSE) },
          p \in { None, Some("ACCEPT"), Some("DROP"), Some("REJECT") },
          r \in { << >>, << FirewallRule("IN", "ACCEPT", TRUE) >> } }

IptablesModels ==
    { None, Some(ZeroIptables),
      Some([ chains |-> << IptablesChain("INPUT", "ACCEPT") >> ]),
      Some([ chains |-> << IptablesChain("INPUT", "DROP") >> ]),
      Some([ chains |-> << IptablesChain("FORWARD", "ACCEPT"), IptablesChain("INPUT", "ACCEPT") >> ]),
      Some([ chains |-> << IptablesChain("FORWARD", "ACCEPT"), IptablesChain("INPUT", "-") >> ]) }

BadSSH == Some(SSHOf(Some("yes"), Some("yes"), Some(22), Some(10)))
GoodSSH == Some(SSHOf(Some("no"), Some("no"), Some(2222), Some(4)))
BadFirewall == Some(FirewallOf(Some(FALSE), Some("ACCEPT"), << >>))
GoodFirewall == Some(FirewallOf(Some(TRUE), Some("DROP"), << FirewallRule("IN", "ACCEPT", TRUE) >>))
BadAuth ==
    Some([ ZeroAuth EXCEPT
             !.users = << PVEUser("alice@pve", Some(TRUE), None) >>,
             !.acls = << PVEAcl(TRUE, "/", "alice@pve", "Administrator") >>,
             !.tokens = << PVEToken("root@pam", "ci", None, None) >> ])
GoodAuth ==
    Some([ ZeroAuth EXCEPT
             !.users = << PVEUser("root@pam", Some(TRUE), Some("totp")),
                          PVEUser("alice@pve", Some(TRUE), Some("totp")) >>,
             !.acls = << PVEAcl(TRUE, "/", "alice@pve", "PVEAuditor") >>,
             !.tokens = << PVEToken("alice@pve", "ci", Some(1893456000), Some(TRUE)) >> ])
BadAPI ==
    Some([ tokens |-> << PVEToken("alice@pve", "ci", None, None) >>, tokenAcls |-> << >> ])
GoodAPI ==
    Some([ tokens |-> << PVEToken("alice@pve", "ci", Some(1893456000), Some(TRUE)) >>,
           tokenAcls |-> << >> ])
BadContainers == Some([ containers |-> << ContainerConfig("100", None, TRUE) >> ])
GoodContainers == Some([ containers |-> << ContainerConfig("100", Some(TRUE), FALSE) >> ])
BadStorage ==
    Some([ entries |-> <<
        [ StorageEntry("nfs", "backup") EXCEPT
            !.options = Some("rw,no_root_squash"),
            !.rawOptions = [ k \in { "options" } |-> "rw,no_root_squash" ] ],
        [ StorageEntry("cifs", "share") EXCEPT
            !.options = Some("guest"),
            !.rawOptions = [ k \in { "options" } |-> "guest" ] ] >> ])
GoodStorage == Some([ entries |-> << StorageEntry("dir", "local") >> ])

\* every combination of absent / insecure / hardened sub-models
CoarseConfigs ==
    { ParsedConfig(ssh, fw, auth, ct, api, st, ipt, EmptyRaw) :
          ssh \in { None, BadSSH, GoodSSH },
          fw \in { None, BadFirewall, GoodFirewall },
          auth \in { None, BadAuth, GoodAuth },
          ct \in { None, BadContainers, GoodContainers },
          api \in { None, BadAPI, GoodAPI },
          st \in { None, BadStorage, GoodStorage },
          ipt \in { None, Some([ chains |-> << IptablesChain("INPUT", "ACCEPT") >> ]) } }

\* every SSH sub-model, the other sub-models absent
SSHConfigs ==
    { ParsedConfig(ssh, None, None, None, None, None, None, EmptyRaw) : ssh \in SSHModels }

\* every cluster firewall sub-model with every packet-filter sub-model
FirewallConfigs ==
    { ParsedConfig(None, fw, None, None, None, None, ipt, EmptyRaw) :
          fw \in FirewallModels, ipt \in IptablesModels }

\* the user records of an auth sub-model: at most two, of distinct ids
UserRecords ==
    { PVEUser(id, enable, tfa) :
          id \in { "root@pam", "alice@pve", "bob@pve" },
          enable \in { None, Some(TRUE), Some(FALSE) },
          tfa \in { None, Some("totp") } }

AuthModels ==
    { [ ZeroAuth EXCEPT !.users = users ] :
          users \in { << >> } \cup { << u >> : u \in UserRecords }
                    \cup { p \in UserRecords \X UserRecords : p[1].userid # p[2].userid } }

\* every auth sub-model, the other sub-models absent
AuthConfigs ==
    { ParsedConfig(None, None, Some(auth), None, None, None, None, EmptyRaw) :
          auth \in AuthModels }

EngineConfigs == CoarseConfigs \cup SSHConfigs \cup FirewallConfigs \cup AuthConfigs

\* a rule outside the catalog whose category is none of the six
UncategorisedRule == Rule("custom-rule", "network", "high")

\* the rules argument of generateAuditReport: the catalog, the catalog with a rule of an
\* unknown category, and one category's rules alone
EngineCatalogs == { allRules, Append(allRules, UncategorisedRule), sshRules }

---------------------------------------------------------------------------
(* The audit store: initial state (store/auditStore) *)

emptyConfigInputs == [ ft \in ConfigFileType |-> << >> ]

StoreInit ==
    /\ configInputs = emptyConfigInputs
    /\ lastConfigInputs = emptyConfigInputs
    /\ parsedConfig = None
    /\ auditReport = None
    /\ history = << >>
    /\ activeVariant = 1
    /\ isAuditing = FALSE
    /\ comparisonPair = None
    /\ pending = 0
    /\ now = 0

---------------------------------------------------------------------------
(* The engine's exported functions, each called once on an input drawn     *)
(* from a bounded set.                                                     *)

MaxFindings == 3

ScoreSamples == { 0, 33, 50, 90, 100 }

\* findings of every severity, passed and failed
FindingSamples(category) ==
    { [ rule |-> Rule("sample", category, sev), result |-> Result(passed, "sample") ] :
          sev \in Severity, passed \in BOOLEAN }

\* category score lists in the fixed order, each category present with a sampled score
\* or left out
CategoryScoreLists ==
    LET choice == [ AuditCategory -> ScoreSamples \cup { -1 } ]
        listOf(f) ==
            LET present == SelectSeq(allCategories, LAMBDA c : f[c] # -1)
            IN  [ i \in DOMAIN present |->
                    [ category |-> present[i], score |-> f[present[i]],
                      findings |-> << >>, maxScore |-> 100 ] ]
    IN  { listOf(f) : f \in choice }

EngineInit ==
    /\ StoreInit
    /\ op = "idle"
    /\ arg = None
    /\ ret = None

CallScoreToGrade ==
    /\ op = "idle"
    /\ \E score \in 0..100 :
          /\ op' = "scoreToGrade"
          /\ arg' = score
          /\ ret' = scoreToGrade(score)
    /\ UNCHANGED storeVars

CallCalculateCategoryScore ==
    /\ op = "idle"
    /\ \E category \in AuditCategory :
       \E findings \in SeqsUpTo(FindingSamples(category), MaxFindings) :
          /\ op' = "calculateCategoryScore"
          /\ arg' = [ category |-> category, findings |-> findings ]
          /\ ret' = calculateCategoryScore(category, findings)
    /\ UNCHANGED storeVars

CallCalculateOverallScore ==
    /\ op = "idle"
    /\ \E categories \in CategoryScoreLists :
          /\ op' = "calculateOverallScore"
          /\ arg' = categories
          /\ ret' = calculateOverallScore(categories)
    /\ UNCHANGED storeVars

\* generateAuditReport on a hand-built model and any catalog, or on the model that
\* parseAllConfigs made of raw texts and the fixed catalog
CallGenerateAuditReport ==
    /\ op = "idle"
    /\ \/ \E config \in EngineConfigs, rules \in EngineCatalogs :
             /\ op' = "generateAuditReport"
             /\ arg' = [ parsedConfig |-> config, rules |-> rules ]
             /\ ret' = generateAuditReport(config, rules, now)
       \/ \E inputs \in RawInputs :
             /\ op' = "generateAuditReport"
             /\ arg' = [ parsedConfig |-> parseAllConfigs(inputs), rules |-> allRules ]
             /\ ret' = generateAuditReport(parseAllConfigs(inputs), allRules, now)
    /\ UNCHANGED storeVars

CallParseAllConfigs ==
    /\ op = "idle"
    /\ \E inputs \in RawInputs :
          /\ op' = "parseAllConfigs"
          /\ arg' = inputs
          /\ ret' = parseAllConfigs(inputs)
    /\ UNCHANGED storeVars

---------------------------------------------------------------------------
(* The six parsers, each called once on a text made of at most MaxLines    *)
(* lines drawn from the lines that exercise it.                            *)

MaxLines == 4

\* the empty text and the texts of white space only
BlankTexts == SeqsUpTo({ << >>, << Indent >> }, MaxLines)

SshLines ==
    { << "PermitRootLogin", "no" >>,
      << "PasswordAuthentication", "no" >>,
      << "Port", "2222" >>,
      << "Match", "User", "git" >>,
      << Indent, "Match", "Address", "10.0.0.0/24" >>,
      << "Match" >>,
      << "#", "Match", "all" >>,
      << >> }

UserCfgLines ==
    { << "user", "alice@pve", "1", "1893456000", "Alice", "Smith", "alice@example.org", "ops",
         "x!oath", "" >>,
      << "user", "alice@pve", "0" >>,
      << "user", "root@pam", "1", "0", "", "", "", "", "", "" >>,
      << "tfa", "alice@pve", "u2f", "" >>,
      << "tfa", "root@pam" >>,
      << "tfa" >>,
      << "#", "users" >> }

IptablesLines ==
    { << "*", "filter" >>,
      << ":", "INPUT", "DROP", "[0:0]" >>,
      << "-A", "INPUT", "-j", "ACCEPT" >>,
      << "-A", "INPUT", "-p", "tcp", "--dport", "22", "-j", "DROP" >>,
      << "-A", "f2b", "-j", "DROP" >>,
      << "Chain", "INPUT", "(policy", "ACCEPT", ")" >>,
      << "COMMIT" >> }

\* the dump of two tables that both declare the chain INPUT
TwoTablesText ==
    << << "*", "filter" >>, << ":", "INPUT", "DROP", "[0:0]" >>,
       << "-A", "INPUT", "-p", "tcp", "--dport", "22", "-j", "ACCEPT" >>, << "COMMIT" >>,
       << "*", "nat" >>, << ":", "INPUT", "ACCEPT", "[0:0]" >>, << "COMMIT" >> >>

IdmapLine == << "lxc.idmap", "=", "u", "0", "100000", "65536" >>

LxcLines ==
    { << "#", "Container", "100" >>,
      << "#", "Container", "101" >>,
      IdmapLine,
      << "unprivileged", ":", "0" >>,
      << "unprivileged", ":", "1" >>,
      << "hostname", ":", "web" >> }

StorageLines ==
    { << "dir", ":", "local" >>,
      << "NFS", ":", "backup" >>,
      << Indent, "path", "/var/lib/vz" >>,
      << Indent, "options", "no_root_squash" >>,
      << Indent, "Options", "guest" >>,
      << "stray", "line" >> }

ClusterFwLines ==
    { << "[", "OPTIONS", "]" >>,
      << "[", "RULES", "]" >>,
      << "[", "IPSET", "mgmt", "]" >>,
      << "[", "SETTINGS", "]" >>,
      << "enable", "1" >>,
      << "IN", "ACCEPT" >> }

CallParseSSHConfig ==
    /\ op = "idle"
    /\ \E input \in SeqsUpTo(SshLines, MaxLines) \cup SshTexts \cup BlankTexts :
          /\ op' = "parseSSHConfig"
          /\ arg' = input
          /\ ret' = parseSSHConfig(input)
    /\ UNCHANGED storeVars

CallParseClusterFirewall ==
    /\ op = "idle"
    /\ \E input \in SeqsUpTo(ClusterFwLines, MaxLines) \cup FirewallTexts \cup BlankTexts :
          /\ op' = "parseClusterFirewall"
          /\ arg' = input
          /\ ret' = parseClusterFirewall(input)
    /\ UNCHANGED storeVars

CallParseUserConfig ==
    /\ op = "idle"
    /\ \E input \in SeqsUpTo(UserCfgLines, MaxLines) \cup UserTexts \cup BlankTexts :
          /\ op' = "parseUserConfig"
          /\ arg' = input
          /\ ret' = parseUserConfig(input)
    /\ UNCHANGED storeVars

CallParseIptables ==
    /\ op = "idle"
    /\ \E input \in SeqsUpTo(IptablesLines, MaxLines) \cup IptablesTexts
                    \cup { TwoTablesText } \cup BlankTexts :
          /\ op' = "parseIptables"
          /\ arg' = input
          /\ ret' = parseIptables(input)
    /\ UNCHANGED storeVars

CallParseLXCConfig ==
    /\ op = "idle"
    /\ \E input \in SeqsUpTo(LxcLines, MaxLines) \cup LxcTexts \cup BlankTexts :
          /\ op' = "parseLXCConfig"
          /\ arg' = input
          /\ ret' = parseLXCConfig(input)
    /\ UNCHANGED storeVars

CallParseStorageConfig ==
    /\ op = "idle"
    /\ \E input \in SeqsUpTo(StorageLines, MaxLines) \cup StorageTexts \cup BlankTexts :
          /\ op' = "parseStorageConfig"
          /\ arg' = input
          /\ ret' = parseStorageConfig(input)
    /\ UNCHANGED storeVars

EngineNext ==
    \/ CallScoreToGrade
    \/ CallCalculateCategoryScore
    \/ CallCalculateOverallScore
    \/ CallGenerateAuditReport
    \/ CallParseAllConfigs
    \/ CallParseSSHConfig
    \/ CallParseClusterFirewall
    \/ CallParseUserConfig
    \/ CallParseIptables
    \/ CallParseLXCConfig
    \/ CallParseStorageConfig

SpecEngine == EngineInit /\ [][EngineNext]_vars

---------------------------------------------------------------------------
(* The audit store (store/auditStore): the handlers of the store, the      *)
(* timer callback that runAudit schedules, and the clock.                  *)

MaxTime == 1
MaxPending == 2
\* the store keeps the 50 most recent reports; the model keeps HistoryCap of them
HistoryCap == 2

InsecureSshText ==
    << << "PermitRootLogin", "Yes" >>, << "PasswordAuthentication", "yes" >>,
       << "Port", "22" >>, << "MaxAuthTries", "10" >> >>

HardenedSshText ==
    << << "#", "hardened" >>, << "PermitRootLogin", "no" >>, << "PasswordAuthentication", "no" >>,
       << "Port", "2222" >>, << "MaxAuthTries", "3" >> >>

HardenedFirewallText ==
    << << "[", "OPTIONS", "]" >>, << "enable", "1" >>, << "policy_in", "drop" >>,
       << "[", "RULES", "]" >>, << "IN", "ACCEPT", "-p", "tcp", "-dport", "22", "#", "ssh" >>,
       << "|", "IN", "DROP" >> >>

\* the texts a user types or pastes into the editor of a file type
EditorTexts(fileType) ==
    IF fileType = "sshd_config" THEN { EmptyText, InsecureSshText } ELSE { EmptyText }

SampleType == { "insecure", "partial", "hardened" }

\* the three sample sets; their texts are not part of the sources at hand
insecureSample == [ emptyConfigInputs EXCEPT !["sshd_config"] = InsecureSshText ]
partialSample == [ emptyConfigInputs EXCEPT !["sshd_config"] = HardenedSshText ]
hardenedSample ==
    [ emptyConfigInputs EXCEPT !["sshd_config"] = HardenedSshText,
                               !["cluster.fw"] = HardenedFirewallText ]

getSample(type) ==
    CASE type = "insecure" -> insecureSample
      [] type = "partial"  -> partialSample
      [] type = "hardened" -> hardenedSample

\* the rule of a stored finding: the fields of the rule without its test function
StoredFinding(finding) ==
    [ rule |-> [ id |-> finding.rule.id, category |-> finding.rule.category,
                 severity |-> finding.rule.severity ],
      result |-> finding.result ]

serializeReport(report) ==
    [ report EXCEPT
        !.findings = [ i \in DOMAIN report.findings |-> StoredFinding(report.findings[i]) ],
        !.categories = [ k \in DOMAIN report.categories |->
            [ category |-> report.categories[k].category,
              score |-> report.categories[k].score,
              maxScore |-> report.categories[k].maxScore,
              findings |-> [ i \in DOMAIN report.categories[k].findings |->
                               StoredFinding(report.categories[k].findings[i]) ] ] ] ]

\* variant: nothing is cut off
Slice_KeepsAll(seq, n) == seq

\* array.slice(0, n)
Slice(seq, n) == SubSeq(seq, 1, Min(n, Len(seq)))

Init == EngineInit

setConfigInput ==
    /\ \E fileType \in ConfigFileType :
       \E content \in EditorTexts(fileType) :
          configInputs' = [ configInputs EXCEPT ![fileType] = content ]
    /\ UNCHANGED << lastConfigInputs, parsedConfig, auditReport, history, activeVariant,
                    isAuditing, comparisonPair, pending, now >>
    /\ UNCHANGED engineVars

\* runAudit up to its return: the flag is set and the timer is armed
runAudit ==
    /\ pending < MaxPending
    /\ isAuditing' = TRUE
    /\ pending' = pending + 1
    /\ UNCHANGED << configInputs, lastConfigInputs, parsedConfig, auditReport, history,
                    activeVariant, comparisonPair, now >>
    /\ UNCHANGED engineVars

\* variant: the callback does not record the inputs it audited
runAuditTimeout_KeepsLastInputs ==
    /\ pending > 0
    /\ pending' = pending - 1
    /\ LET parsed == parseAllConfigs(configInputs)
           report == generateAuditReport(parsed, allRules, now)
       IN  /\ parsedConfig' = Some(parsed)
           /\ auditReport' = Some(report)
           /\ isAuditing' = FALSE
           /\ history' = Slice(<< serializeReport(report) >> \o history, HistoryCap)
    /\ UNCHANGED << configInputs, lastConfigInputs, activeVariant, comparisonPair, now >>
    /\ UNCHANGED engineVars

\* variant: the callback leaves the loading flag as it is
runAuditTimeout_LeavesFlag ==
    /\ pending > 0
    /\ pending' = pending - 1
    /\ LET parsed == parseAllConfigs(configInputs)
           report == generateAuditReport(parsed, allRules, now)
       IN  /\ parsedConfig' = Some(parsed)
           /\ auditReport' = Some(report)
           /\ lastConfigInputs' = configInputs
           /\ history' = Slice(<< serializeReport(report) >> \o history, HistoryCap)
    /\ UNCHANGED << configInputs, activeVariant, isAuditing, comparisonPair, now >>
    /\ UNCHANGED engineVars

\* the callback of a timer that runAudit armed: it reads the inputs of the moment it
\* runs at, and stamps the report with the clock
runAuditTimeout ==
    /\ pending > 0
    /\ pending' = pending - 1
    /\ LET parsed == parseAllConfigs(configInputs)
           report == generateAuditReport(parsed, allRules, now)
       IN  /\ parsedConfig' = Some(parsed)
           /\ auditReport' = Some(report)
           /\ isAuditing' = FALSE
           /\ lastConfigInputs' = configInputs
           /\ history' = Slice(<< serializeReport(report) >> \o history, HistoryCap)
    /\ UNCHANGED << configInputs, activeVariant, comparisonPair, now >>
    /\ UNCHANGED engineVars

loadSample ==
    /\ \E type \in SampleType : configInputs' = getSample(type)
    /\ parsedConfig' = None
    /\ auditReport' = None
    /\ UNCHANGED << lastConfigInputs, history, activeVariant, isAuditing, comparisonPair,
                    pending, now >>
    /\ UNCHANGED engineVars

loadLastConfig ==
    /\ configInputs' = lastConfigInputs
    /\ parsedConfig' = None
    /\ auditReport' = None
    /\ UNCHANGED << lastConfigInputs, history, activeVariant, isAuditing, comparisonPair,
                    pending, now >>
    /\ UNCHANGED engineVars

clearResults ==
    /\ parsedConfig' = None
    /\ auditReport' = None
    /\ UNCHANGED << configInputs, lastConfigInputs, history, activeVariant, isAuditing,
                    comparisonPair, pending, now >>
    /\ UNCHANGED engineVars

setVariant ==
    /\ \E variant \in 0..3 : activeVariant' = Max(1, Min(2, variant))
    /\ UNCHANGED << configInputs, lastConfigInputs, parsedConfig, auditReport, history,
                    isAuditing, comparisonPair, pending, now >>
    /\ UNCHANGED engineVars

clearHistory ==
    /\ history' = << >>
    /\ comparisonPair' = None
    /\ UNCHANGED << configInputs, lastConfigInputs, parsedConfig, auditReport,
                    activeVariant, isAuditing, pending, now >>
    /\ UNCHANGED engineVars

deleteHistoryEntry ==
    /\ \E timestamp \in 0..MaxTime :
          /\ history' = SelectSeq(history, LAMBDA e : e.timestamp # timestamp)
          /\ comparisonPair' =
                IF comparisonPair # None /\ timestamp \in Range(Val(comparisonPair))
                THEN None ELSE comparisonPair
    /\ UNCHANGED << configInputs, lastConfigInputs, parsedConfig, auditReport,
                    activeVariant, isAuditing, pending, now >>
    /\ UNCHANGED engineVars

setComparisonPair ==
    /\ \E a \in 0..MaxTime, b \in 0..MaxTime : comparisonPair' = Some(<< a, b >>)
    /\ UNCHANGED << configInputs, lastConfigInputs, parsedConfig, auditReport, history,
                    activeVariant, isAuditing, pending, now >>
    /\ UNCHANGED engineVars

clearComparison ==
    /\ comparisonPair' = None
    /\ UNCHANGED << configInputs, lastConfigInputs, parsedConfig, auditReport, history,
                    activeVariant, isAuditing, pending, now >>
    /\ UNCHANGED engineVars

\* Date.now() moves on
Tick ==
    /\ now < MaxTime
    /\ now' = now + 1
    /\ UNCHANGED << configInputs, lastConfigInputs, parsedConfig, auditReport, history,
                    activeVariant, isAuditing, comparisonPair, pending >>
    /\ UNCHANGED engineVars

Next ==
    \/ setConfigInput
    \/ runAudit
    \/ runAuditTimeout
    \/ loadSample
    \/ loadLastConfig
    \/ clearResults
    \/ setVariant
    \/ clearHistory
    \/ deleteHistoryEntry
    \/ setComparisonPair
    \/ clearComparison
    \/ Tick

Spec == Init /\ [][Next]_vars

\* the event loop runs the callback of an armed timer: the count of armed timers goes
\* down by one.  Of the store's steps only runAuditTimeout does that, and it can do it
\* whenever a timer is armed.
TimerFires == pending > 0 /\ pending' = pending - 1

\* the timer callbacks run: a timer that is armed fires
FairSpec == Spec /\ WF_pending(TimerFires)

---------------------------------------------------------------------------
(* Properties of the scoring engine and the rule catalog *)

IsReport == op = "generateAuditReport"
ReportOfCatalog == IsReport /\ arg.rules = allRules

\* the sixteen rule ids of the catalog
CatalogIds ==
    { "root-ssh-password", "ssh-default-port", "password-auth-enabled", "high-max-auth-tries",
      "firewall-disabled", "default-accept-input", "no-firewall-rules",
      "no-2fa-users", "root-api-tokens", "overpermissive-roles",
      "privileged-containers", "container-nesting",
      "nfs-no-root-squash", "cifs-world-readable",
      "admin-api-tokens", "no-token-expiry" }

\* the result of the rule `id` in a report that holds it once
PassedIn(report, id) ==
    \E i \in DOMAIN report.findings :
        report.findings[i].rule.id = id /\ report.findings[i].result.passed

AllAbsent(config) ==
    /\ config.ssh = None /\ config.firewall = None /\ config.auth = None
    /\ config.containers = None /\ config.api = None /\ config.storage = None
    /\ config.iptables = None

\* C2 (as stated): on a ParsedConfig whose sub-models are all absent, each of the 16
\* catalog rules returns passed = true.
C2_AllRulesPassOnAbsent ==
    (ReportOfCatalog /\ AllAbsent(arg.parsedConfig)) =>
        \A i \in DOMAIN ret.findings : ret.findings[i].result.passed

\* C2 (amended): on a ParsedConfig whose sub-models are all absent, every catalog rule
\* except firewall-disabled returns passed = true, and firewall-disabled returns
\* passed = false.
C2_AllButFirewallDisabledPassOnAbsent ==
    (ReportOfCatalog /\ AllAbsent(arg.parsedConfig)) =>
        /\ { ret.findings[i].rule.id : i \in DOMAIN ret.findings } = CatalogIds
        /\ \A i \in DOMAIN ret.findings :
              ret.findings[i].result.passed <=> ret.findings[i].rule.id # "firewall-disabled"

C2_Witness ==
    /\ ReportOfCatalog /\ AllAbsent(arg.parsedConfig)
    /\ Len(ret.findings) = 16
    /\ ~PassedIn(ret, "firewall-disabled")
    /\ PassedIn(ret, "root-ssh-password")

\* number of failing findings of one severity
FailCount(findings, sev) ==
    Cardinality({ i \in DOMAIN findings :
                    ~findings[i].result.passed /\ findings[i].rule.severity = sev })

ClaimedDeduction(findings) ==
    40 * FailCount(findings, "critical") + 25 * FailCount(findings, "high")
    + 10 * FailCount(findings, "medium") + 5 * FailCount(findings, "info")

\* C3: calculateCategoryScore returns max(0, 100 - sum of deductions), a failing finding
\* deducting 40/25/10/5 by severity and a passing one nothing; the score is an integer
\* in [0,100] and maxScore is 100.
C3_CategoryScore ==
    op = "calculateCategoryScore" =>
        LET raw == 100 - ClaimedDeduction(arg.findings)
        IN  /\ ret.score = (IF raw > 0 THEN raw ELSE 0)
            /\ ret.score \in 0..100
            /\ ret.maxScore = 100
            /\ ret.category = arg.category
            /\ ret.findings = arg.findings

C3_Witness ==
    /\ op = "calculateCategoryScore"
    /\ ClaimedDeduction(arg.findings) > 100
    /\ ret.score = 0

ClaimedWeight(category) ==
    CASE category = "ssh" -> 25 [] category = "auth" -> 20 [] category = "firewall" -> 25
      [] category = "container" -> 15 [] category = "storage" -> 10 [] category = "api" -> 5

ClaimedWeightedSum(categories) ==
    SumSeq([ i \in DOMAIN categories |-> categories[i].score * ClaimedWeight(categories[i].category) ])

ClaimedTotalWeight(categories) ==
    SumSeq([ i \in DOMAIN categories |-> ClaimedWeight(categories[i].category) ])

\* C4: calculateOverallScore is the weighted average of the category scores rounded to
\* the nearest integer, a half rounding up: r - 1/2 <= sum/weight < r + 1/2; it lies in
\* [0,100] for six scores in [0,100], and it is 0 for the empty list.
C4_OverallScore ==
    op = "calculateOverallScore" =>
        LET ws == ClaimedWeightedSum(arg)
            tw == ClaimedTotalWeight(arg)
        IN  /\ arg = << >> => ret = 0
            /\ tw > 0 => /\ 2 * tw * ret - tw <= 2 * ws
                         /\ 2 * ws < 2 * tw * ret + tw
            /\ Len(arg) = 6 => (tw = 100 /\ ret \in 0..100)

C4_Witness ==
    /\ op = "calculateOverallScore"
    /\ Len(arg) = 6
    /\ 2 * ClaimedWeightedSum(arg) = 2 * 100 * ret - 100
    /\ ret \in 1..100

ClaimedGrade(score) ==
    CASE score >= 90 -> "A"
      [] score \in 80..89 -> "B"
      [] score \in 70..79 -> "C"
      [] score \in 60..69 -> "D"
      [] score \in 0..59 -> "F"

GradeRank(grade) ==
    CASE grade = "F" -> 0 [] grade = "D" -> 1 [] grade = "C" -> 2 [] grade = "B" -> 3
      [] grade = "A" -> 4

\* C5: over the scores 0..100 scoreToGrade is total, non-decreasing and maps >= 90 to A,
\* 80..89 to B, 70..79 to C, 60..69 to D, 0..59 to F (each boundary in the higher grade),
\* and a report's overallGrade is the grade of its overallScore.
C5_Grade ==
    /\ op = "scoreToGrade" =>
          /\ ret \in { "A", "B", "C", "D", "F" }
          /\ ret = ClaimedGrade(arg)
          /\ \A lower \in 0..arg : GradeRank(scoreToGrade(lower)) <= GradeRank(ret)
    /\ IsReport =>
          /\ ret.overallScore \in 0..100
          /\ ret.overallGrade = ClaimedGrade(ret.overallScore)

C5_Witness ==
    /\ op = "scoreToGrade"
    /\ arg \in { 60, 70, 80, 90 }
    /\ GradeRank(ret) = GradeRank(scoreToGrade(arg - 1)) + 1

\* C6: with the fixed catalog the report holds exactly 16 findings, one for each catalog
\* rule id and none for any other id, whatever the results of the rules.
C6_EveryRuleOnce ==
    ReportOfCatalog =>
        /\ Len(ret.findings) = 16
        /\ \A id \in CatalogIds :
              Cardinality({ i \in DOMAIN ret.findings : ret.findings[i].rule.id = id }) = 1
        /\ \A i \in DOMAIN ret.findings : ret.findings[i].rule.id \in CatalogIds

C6_Witness ==
    /\ ReportOfCatalog
    /\ ~ret.findings[1].result.passed
    /\ Len(ret.findings) = 16
    /\ \E i \in 2..16 : ~ret.findings[i].result.passed
    /\ \E i \in 2..16 : ret.findings[i].result.passed

\* C7: a report holds exactly six CategoryScore records, one per fixed category, a
\* category without findings scoring 100, and every finding of a rule of one of the six
\* categories is in the findings of exactly one CategoryScore, that of its rule's
\* category.
C7_SixCategories ==
    IsReport =>
        /\ Len(ret.categories) = 6
        /\ \A c \in { "ssh", "firewall", "auth", "container", "storage", "api" } :
              Cardinality({ k \in DOMAIN ret.categories : ret.categories[k].category = c }) = 1
        /\ \A k \in DOMAIN ret.categories :
              /\ ret.categories[k].findings = << >> => ret.categories[k].score = 100
              /\ ret.categories[k].maxScore = 100
        /\ \A i \in DOMAIN ret.findings :
              ret.findings[i].rule.category \in AuditCategory =>
                  LET holders == { k \in DOMAIN ret.categories :
                                     ret.findings[i] \in Range(ret.categories[k].findings) }
                  IN  /\ Cardinality(holders) = 1
                      /\ \A k \in holders :
                            /\ ret.categories[k].category = ret.findings[i].rule.category
                            /\ Cardinality({ j \in DOMAIN ret.categories[k].findings :
                                   ret.categories[k].findings[j] = ret.findings[i] }) = 1

C7_Witness ==
    /\ IsReport
    /\ arg.rules = sshRules
    /\ Len(ret.categories) = 6
    /\ \E k \in DOMAIN ret.categories :
          ret.categories[k].findings = << >> /\ ret.categories[k].score = 100
    /\ \E k \in DOMAIN ret.categories :
          Len(ret.categories[k].findings) = 4 /\ ret.categories[k].score < 100

\* C8 (as stated): a rule whose category is none of the six is rejected before any audit
\* runs, so no report holds a finding of such a rule that is in no category score.
C8_UncategorisedRuleRejected ==
    IsReport =>
        \A i \in DOMAIN ret.findings :
            \E k \in DOMAIN ret.categories :
                ret.findings[i] \in Range(ret.categories[k].findings)

FirewallPresent == IsReport /\ "default-accept-input" \in { arg.rules[i].id : i \in DOMAIN arg.rules }
                            /\ arg.parsedConfig.firewall # None

\* the first packet-filter chain named INPUT declares policy ACCEPT
InputChainAccepts(config) ==
    /\ config.iptables # None
    /\ \E i \in DOMAIN Val(config.iptables).chains :
          /\ Val(config.iptables).chains[i].name = "INPUT"
          /\ Val(config.iptables).chains[i].policy = "ACCEPT"
          /\ \A j \in 1..(i - 1) : Val(config.iptables).chains[j].name # "INPUT"

\* C9 (as stated): when the cluster firewall gives an explicit policyIn other than
\* ACCEPT, default-accept-input passes whatever the packet-filter INPUT policy is.
C9_ClusterPolicyTakesPrecedence ==
    (FirewallPresent /\ Val(arg.parsedConfig.firewall).policyIn \notin { None, Some("ACCEPT") }) =>
        PassedIn(ret, "default-accept-input")

\* C9 (amended): with the cluster firewall sub-model present, default-accept-input fails
\* iff policyIn is ACCEPT or the packet-filter INPUT chain's policy is ACCEPT; the
\* packet-filter policy is consulted whenever policyIn is not ACCEPT, an explicit DROP
\* included, and never when the cluster firewall sub-model is absent (the rule passes).
C9_EitherPolicyAcceptFails ==
    /\ FirewallPresent =>
          (~PassedIn(ret, "default-accept-input") <=>
              \/ Val(arg.parsedConfig.firewall).policyIn = Some("ACCEPT")
              \/ InputChainAccepts(arg.parsedConfig))
    /\ (IsReport /\ arg.rules = allRules /\ arg.parsedConfig.firewall = None) =>
          PassedIn(ret, "default-accept-input")

C9_Witness ==
    /\ FirewallPresent
    /\ Val(arg.parsedConfig.firewall).policyIn = Some("DROP")
    /\ InputChainAccepts(arg.parsedConfig)
    /\ ~PassedIn(ret, "default-accept-input")

\* the report of the fixed catalog on the model that parseAllConfigs makes of six
\* empty texts
EmptyInputsReport ==
    /\ IsReport
    /\ arg.rules = allRules
    /\ arg.parsedConfig = parseAllConfigs(emptyConfigInputs)

\* C1 (as stated): when the raw text of every file type is empty, parseAllConfigs
\* followed by generateAuditReport with the fixed catalog gives 16 findings that all
\* have passed = true, and every category score is 100.
C1_EmptyInputsScoreNoFailure ==
    EmptyInputsReport =>
        /\ Len(ret.findings) = 16
        /\ \A i \in DOMAIN ret.findings : ret.findings[i].result.passed
        /\ \A k \in DOMAIN ret.categories : ret.categories[k].score = 100

\* C10: firewall-disabled passes iff the firewall sub-model is present and its enabled
\* field is exactly true; it fails when the sub-model is absent and when enabled is
\* false or unknown.
C10_FirewallDisabledPassesIffEnabled ==
    (IsReport /\ "firewall-disabled" \in { arg.rules[i].id : i \in DOMAIN arg.rules }) =>
        (PassedIn(ret, "firewall-disabled") <=>
            /\ arg.parsedConfig.firewall # None
            /\ Val(arg.parsedConfig.firewall).enabled = Some(TRUE))

\* a firewall sub-model that the parser made of a text without an enable option: the
\* field is unknown and the rule fails
C10_Witness ==
    /\ IsReport
    /\ arg.rules = allRules
    /\ arg.parsedConfig.firewall # None
    /\ Val(arg.parsedConfig.firewall).enabled = None
    /\ Val(arg.parsedConfig.firewall).policyIn = Some("DROP")
    /\ ~PassedIn(ret, "firewall-disabled")

---------------------------------------------------------------------------
(* Properties of single rules and of the parsers *)

\* the rule ids of the rules argument of the report
RuleIds == { arg.rules[i].id : i \in DOMAIN arg.rules }

\* C11: root-ssh-password, when an SSH sub-model is present, fails iff permitRootLogin
\* is `yes` or unset and passwordAuthentication is anything other than `no` (unset
\* included); every other permitRootLogin value passes.
C11_RootSshPasswordFailsIffRootAndPassword ==
    (IsReport /\ "root-ssh-password" \in RuleIds /\ arg.parsedConfig.ssh # None) =>
        LET ssh == Val(arg.parsedConfig.ssh)
        IN  ~PassedIn(ret, "root-ssh-password") <=>
                /\ ssh.permitRootLogin \in { None, Some("yes") }
                /\ ssh.passwordAuthentication # Some("no")

\* PermitRootLogin prohibit-password with password authentication left unset: the rule
\* passes although password authentication is allowed
C11_Witness ==
    /\ IsReport
    /\ "root-ssh-password" \in RuleIds
    /\ arg.parsedConfig.ssh # None
    /\ Val(arg.parsedConfig.ssh).permitRootLogin = Some("prohibit-password")
    /\ Val(arg.parsedConfig.ssh).passwordAuthentication = None
    /\ PassedIn(ret, "root-ssh-password")

\* the user records of a parsed user.cfg have pairwise distinct ids
DistinctUserIds(users) ==
    \A i, j \in DOMAIN users : users[i].userid = users[j].userid => i = j

\* C12: after parseUserConfig on any input no two records of `users` share a user id,
\* for any number and any order of `user` and `tfa` lines that name the same id.
C12_NoTwoUsersShareId ==
    /\ op = "parseUserConfig" => DistinctUserIds(ret.users)
    /\ op = "parseAllConfigs" => DistinctUserIds(Val(ret.auth).users)

\* a tfa line first, then two user lines and one more tfa line, all of one id
C12_Witness ==
    /\ op = "parseUserConfig"
    /\ Len(arg) = 4
    /\ \A i \in DOMAIN arg : Len(arg[i]) >= 2 /\ arg[i][2] = "alice@pve"
    /\ arg[1][1] = "tfa"
    /\ arg[2][1] = "user" /\ arg[3][1] = "user" /\ arg[2] # arg[3]
    /\ arg[4][1] = "tfa"
    /\ Len(ret.users) = 1
    /\ ret.users[1].userid = "alice@pve"

\* C13 (as stated): api.tokenAcls holds exactly the ACLs whose subject is the owning
\* user id of some parsed token or contains the token delimiter `!`; an ACL whose
\* subject contains `!` is included also when no token record was parsed.
C13_TokenAclsByOwnerOrDelimiter ==
    op = "parseAllConfigs" =>
        LET auth == Val(ret.auth)
            owners == { auth.tokens[i].userid : i \in DOMAIN auth.tokens }
        IN  Val(ret.api).tokenAcls =
                SelectSeq(auth.acls, LAMBDA acl : acl.ugid \in owners \/ IncludesBang(acl.ugid))

\* C14: no-2fa-users passes with no user records; with at least one it fails iff some
\* user other than root@pam that is not explicitly disabled lacks a 2FA descriptor, or
\* a root@pam record exists and lacks a 2FA descriptor.
C14_No2faUsersFailsIffActiveOrRootLacks2fa ==
    (IsReport /\ "no-2fa-users" \in RuleIds) =>
        LET users == IF arg.parsedConfig.auth = None THEN << >>
                     ELSE Val(arg.parsedConfig.auth).users
        IN  ~PassedIn(ret, "no-2fa-users") <=>
                \/ \E i \in DOMAIN users :
                      /\ users[i].userid # "root@pam"
                      /\ users[i].enable # Some(FALSE)
                      /\ users[i].tfa = None
                \/ \E i \in DOMAIN users :
                      /\ users[i].userid = "root@pam"
                      /\ users[i].tfa = None

\* every other user is disabled or has 2FA, and root@pam is disabled and has none: the
\* rule fails on root@pam alone
C14_Witness ==
    /\ IsReport
    /\ "no-2fa-users" \in RuleIds
    /\ arg.parsedConfig.auth # None
    /\ LET users == Val(arg.parsedConfig.auth).users
       IN  /\ Len(users) = 2
           /\ users[1].userid = "alice@pve" /\ users[1].enable = Some(FALSE)
           /\ users[1].tfa = None
           /\ users[2].userid = "root@pam" /\ users[2].enable = Some(FALSE)
           /\ users[2].tfa = None
    /\ ~PassedIn(ret, "no-2fa-users")

ParserNames ==
    { "parseSSHConfig", "parseClusterFirewall", "parseUserConfig", "parseIptables",
      "parseLXCConfig", "parseStorageConfig" }

\* C15: each of the six parsers, given an empty string or a string of white space
\* only, returns its zero-value sub-model: typed fields null, every list and every map
\* empty.
C15_BlankTextGivesZeroValue ==
    (op \in ParserNames /\ arg \in BlankTexts) =>
        /\ op = "parseSSHConfig" =>
              /\ \A f \in (DOMAIN ret) \ { "rawDirectives" } : ret[f] = None
              /\ DOMAIN ret.rawDirectives = { }
        /\ op = "parseClusterFirewall" =>
              /\ ret.enabled = None /\ ret.policyIn = None /\ ret.policyOut = None
              /\ ret.rules = << >> /\ ret.ipSets = << >> /\ DOMAIN ret.options = { }
        /\ op = "parseUserConfig" =>
              /\ ret.users = << >> /\ ret.groups = << >> /\ ret.acls = << >>
              /\ ret.tokens = << >> /\ DOMAIN ret.roles = { }
        /\ op = "parseIptables" => ret.chains = << >>
        /\ op = "parseLXCConfig" => ret.containers = << >>
        /\ op = "parseStorageConfig" => ret.entries = << >>

\* the container parser on two lines of white space
C15_Witness ==
    /\ op = "parseLXCConfig"
    /\ arg = << << Indent >>, << >> >>
    /\ ret = ZeroContainers

\* a finding list with its i-th finding taken out
Without(findings, i) ==
    SubSeq(findings, 1, i - 1) \o SubSeq(findings, i + 1, Len(findings))

\* C16: a finding list scores no more than the list without one of its failing
\* findings and the same as the list without one of its passing findings; the list
\* without its only failing finding scores 100.
C16_CategoryScoreMonotone ==
    op = "calculateCategoryScore" =>
        \A i \in DOMAIN arg.findings :
            LET fewer == calculateCategoryScore(arg.category, Without(arg.findings, i)).score
                failing == ~arg.findings[i].result.passed
                onlyFailure == /\ failing
                               /\ \A j \in DOMAIN arg.findings :
                                     j # i => arg.findings[j].result.passed
            IN  /\ failing => ret.score <= fewer
                /\ ~failing => ret.score = fewer
                /\ onlyFailure => fewer = 100

\* a critical failure between two passed findings
C16_Witness ==
    /\ op = "calculateCategoryScore"
    /\ Len(arg.findings) = 3
    /\ arg.findings[1].result.passed
    /\ ~arg.findings[2].result.passed /\ arg.findings[2].rule.severity = "critical"
    /\ arg.findings[3].result.passed
    /\ ret.score = 60

\* a line that opens a Match block: the word match and white space after it
OpensMatchBlock(rawLine) ==
    LET line == TrimLine(rawLine) IN Len(line) >= 2 /\ ToLower(line[1]) = "match"

\* C17: parseSSHConfig stops at the first line that opens a Match block: the result is
\* the result of parsing only the lines before that line.
C17_StopsAtMatch ==
    op = "parseSSHConfig" =>
        \A i \in DOMAIN arg :
            (OpensMatchBlock(arg[i]) /\ \A j \in 1..(i - 1) : ~OpensMatchBlock(arg[j])) =>
                ret = parseSSHConfig(SubSeq(arg, 1, i - 1))

\* a directive before the Match line is parsed and two after it are not
C17_Witness ==
    /\ op = "parseSSHConfig"
    /\ arg = << << "Port", "2222" >>, << "Match", "User", "git" >>,
                << "PermitRootLogin", "no" >>, << "PasswordAuthentication", "no" >> >>
    /\ ret.port = Some(2222)
    /\ ret.permitRootLogin = None
    /\ DOMAIN ret.rawDirectives = { "Port" }

\* the positions of the lines of one record type that name a user id
LinesOf(input, type, id) ==
    { i \in DOMAIN input : Len(input[i]) >= 2 /\ input[i][1] = type /\ input[i][2] = id }

UserFields == { "enable", "expire", "firstName", "lastName", "email", "comment" }

\* C18: for a user id with one `user` line and one `tfa` line, in either order,
\* parseUserConfig yields one record of that id; it has a 2FA descriptor and every
\* field the `user` line gives.
C18_UserAndTfaMergeKeepsFields ==
    op = "parseUserConfig" =>
        \A id \in { "alice@pve", "root@pam" } :
            (Cardinality(LinesOf(arg, "user", id)) = 1
                /\ Cardinality(LinesOf(arg, "tfa", id)) = 1) =>
                LET line == arg[CHOOSE i \in LinesOf(arg, "user", id) : TRUE]
                    given == UserLine(ZeroAuth, line).users[1]
                    records == SelectSeq(ret.users, LAMBDA u : u.userid = id)
                IN  /\ Len(records) = 1
                    /\ records[1].tfa # None
                    /\ \A f \in UserFields : given[f] # None => records[1][f] = given[f]

\* the tfa line comes first and the user line has no 2FA key of its own
C18_Witness ==
    /\ op = "parseUserConfig"
    /\ arg = << << "tfa", "alice@pve", "u2f", "" >>, << "user", "alice@pve", "0" >> >>
    /\ Len(ret.users) = 1
    /\ ret.users[1].tfa = Some("u2f")
    /\ ret.users[1].enable = Some(FALSE)

\* C19 (as stated): a parsed container whose block holds an `lxc.idmap = ...` line has
\* unprivileged = true, whatever `unprivileged:` line the block holds and in whatever
\* order.
C19_IdmapImpliesUnprivileged ==
    op = "parseLXCConfig" =>
        \A k \in DOMAIN ret.containers :
            RenderLine(IdmapLine) \in Range(ret.containers[k].rawLines) =>
                ret.containers[k].unprivileged = Some(TRUE)

\* the input is taken for a dump in save format
IsSaveFormat(input) ==
    \E i \in DOMAIN input : input[i] # << >> /\ Head(input[i]) \in { "*", ":" }

\* the `-A NAME ...` lines of an input, trimmed
AppendLines(input) ==
    SelectSeq([ i \in DOMAIN input |-> TrimLine(input[i]) ],
              LAMBDA line : Len(line) >= 3 /\ line[1] = "-A")

\* C20 (as stated): in save format each chain's rule sequence is exactly the sequence
\* of the `-A` lines that name the chain, in input order, also when a `:NAME POLICY`
\* declaration of the chain follows some of its `-A` lines.
C20_EveryAppendLineIsARule ==
    (op = "parseIptables" /\ IsSaveFormat(arg)) =>
        /\ \A i \in DOMAIN AppendLines(arg) : HasChain(ret.chains, AppendLines(arg)[i][2])
        /\ \A k \in DOMAIN ret.chains :
              LET named == SelectSeq(AppendLines(arg),
                                     LAMBDA line : line[2] = ret.chains[k].name)
              IN  [ r \in DOMAIN ret.chains[k].rules |-> ret.chains[k].rules[r].raw ]
                      = [ r \in DOMAIN named |-> Join(named[r]) ]

\* some line, as it is, matches /^Chain\s+\S+/
IsListFormat(input) ==
    \E i \in DOMAIN input : Len(input[i]) >= 2 /\ input[i][1] = "Chain"

\* C21: parseIptables applies exactly one format: the save format alone when some line
\* starts with `*` or `:`, also when `Chain` lines are present; otherwise the list
\* format alone when some line matches `Chain NAME`; otherwise the result has no chain.
C21_ExactlyOneFormat ==
    (op = "parseIptables" /\ arg \notin BlankTexts) =>
        IF IsSaveFormat(arg)
        THEN ret = parseIptablesSaveFormat(arg, ZeroIptables)
        ELSE IF IsListFormat(arg)
        THEN ret = parseIptablesListFormat(arg, ZeroIptables)
        ELSE ret.chains = << >>

\* a dump with a `Chain` header and a chain declaration: the declaration's policy is in
\* the result, the header's is not
C21_Witness ==
    /\ op = "parseIptables"
    /\ arg = << << "Chain", "INPUT", "(policy", "ACCEPT", ")" >>,
                << ":", "INPUT", "DROP", "[0:0]" >>,
                << "-A", "INPUT", "-j", "ACCEPT" >> >>
    /\ Len(ret.chains) = 1
    /\ ret.chains[1].policy = "DROP"
    /\ Len(ret.chains[1].rules) = 1

\* an unindented `type: id` line
IsHeaderLine(line) == Len(line) = 3 /\ line[1] # Indent /\ line[2] = ":"

\* the positions of the header lines of a text, in input order
HeaderPositions(input) ==
    SelectSeq([ i \in DOMAIN input |-> i ], LAMBDA i : IsHeaderLine(input[i]))

\* the positions of the indented `key value` lines of the stanza that the k-th header
\* opens: those up to the next header or the end of the input
StanzaOptionLines(input, k) ==
    LET headers == HeaderPositions(input)
        last == IF k < Len(headers) THEN headers[k + 1] - 1 ELSE Len(input)
    IN  { i \in (headers[k] + 1)..last :
            /\ input[i] # << >> /\ Head(input[i]) = Indent
            /\ ~StartsWithHash(TrimLine(input[i]))
            /\ StorageKeyValue(TrimLine(input[i])) # None }

\* C22: parseStorageConfig returns one entry per unindented `type: id` header line, in
\* input order, the last stanza included; the options of an entry are those of the
\* indented `key value` lines between its header and the next, a later line of a key
\* replacing an earlier one; indented lines before the first header are in no entry.
C22_OneEntryPerHeader ==
    op = "parseStorageConfig" =>
        LET headers == HeaderPositions(arg)
        IN  /\ Len(ret.entries) = Len(headers)
            /\ \A k \in DOMAIN headers :
                  LET entry == ret.entries[k]
                      optionLines == StanzaOptionLines(arg, k)
                      kv(i) == Val(StorageKeyValue(TrimLine(arg[i])))
                  IN  /\ entry.id = arg[headers[k]][3]
                      /\ entry.type = ToLower(arg[headers[k]][1])
                      /\ DOMAIN entry.rawOptions = { kv(i).key : i \in optionLines }
                      /\ \A i \in optionLines :
                            (\A j \in optionLines : kv(j).key = kv(i).key => j <= i) =>
                                entry.rawOptions[kv(i).key] = kv(i).value

\* an option line before the first header, two stanzas, the last one closed by the end
\* of the input
C22_Witness ==
    /\ op = "parseStorageConfig"
    /\ arg = << << Indent, "path", "/var/lib/vz" >>, << "dir", ":", "local" >>,
                << "NFS", ":", "backup" >>, << Indent, "options", "no_root_squash" >> >>
    /\ Len(ret.entries) = 2
    /\ DOMAIN ret.entries[1].rawOptions = { }
    /\ ret.entries[2].id = "backup"
    /\ ret.entries[2].options = Some("no_root_squash")

\* the least score of each category when every rule of the category fails
LeastCategoryScore ==
    [ ssh |-> 15, firewall |-> 25, auth |-> 40, container |-> 65, storage |-> 65, api |-> 65 ]

\* C28: with the fixed 16-rule catalog the floor at 0 is never applied: each category
\* score is 100 minus its deductions and at least ssh 15, firewall 25, auth 40,
\* container 65, storage 65, api 65; the overall score lies between 38 and 100.
C28_FloorNeverApplied ==
    ReportOfCatalog =>
        /\ \A k \in DOMAIN ret.categories :
              /\ ret.categories[k].score = 100 - ClaimedDeduction(ret.categories[k].findings)
              /\ ret.categories[k].score >= LeastCategoryScore[ret.categories[k].category]
        /\ ret.overallScore \in 38..100

\* every rule of the categories ssh, firewall and auth fails
C28_Witness ==
    /\ ReportOfCatalog
    /\ \E k \in DOMAIN ret.categories :
          ret.categories[k].category = "ssh" /\ ret.categories[k].score = 15
    /\ \E k \in DOMAIN ret.categories :
          ret.categories[k].category = "firewall" /\ ret.categories[k].score = 25
    /\ \E k \in DOMAIN ret.categories :
          ret.categories[k].category = "auth" /\ ret.categories[k].score = 40
    /\ ret.overallScore < 50

RECURSIVE WithoutUnknownSections(_, _)
\* a cluster.fw text without the header lines of unknown name and without the lines
\* that follow such a header up to the next header
WithoutUnknownSections(lines, skipping) ==
    IF lines = << >> THEN << >>
    ELSE LET line == TrimLine(Head(lines))
             known == ToLower(line[2]) \in { "options", "rules", "ipset", "group", "aliases" }
         IN  IF IsSectionHeader(line)
             THEN IF known THEN << Head(lines) >> \o WithoutUnknownSections(Tail(lines), FALSE)
                  ELSE WithoutUnknownSections(Tail(lines), TRUE)
             ELSE IF skipping THEN WithoutUnknownSections(Tail(lines), TRUE)
             ELSE << Head(lines) >> \o WithoutUnknownSections(Tail(lines), FALSE)

\* C29 (as stated): a bracketed header line whose name is none of OPTIONS, RULES, IPSET,
\* GROUP, ALIASES ends the current section: the lines after it are not parsed as
\* options or rules of the section that was active before it, so the result is that of
\* the text without them.
C29_UnknownHeaderEndsSection ==
    op = "parseClusterFirewall" =>
        ret = parseClusterFirewall(WithoutUnknownSections(arg, FALSE))

\* C30 (as stated): every record of the `users` list that parseUserConfig returns has a
\* non-empty user id; a `tfa` line whose user-id field is empty creates no record.
C30_EveryUserHasAnId ==
    op = "parseUserConfig" =>
        \A i \in DOMAIN ret.users : ret.users[i].userid # ""

---------------------------------------------------------------------------
(* Properties of the audit store *)

\* C23 (as stated): isAuditing is true whenever a callback of runAudit is still
\* pending, also when runAudit was called twice before the first callback ran.
C23_AuditingWhilePending == pending > 0 => isAuditing

\* the timestamps of the entries of history
HistoryTimestamps == { history[i].timestamp : i \in DOMAIN history }

\* comparisonPair is null or both of its timestamps identify entries of history
PairIdentifiesEntries ==
    comparisonPair = None \/ Range(Val(comparisonPair)) \subseteq HistoryTimestamps

\* C24 (as stated): once comparisonPair identifies two entries of history, no later
\* audit completion, deleteHistoryEntry or clearHistory leaves it non-null with a
\* timestamp that identifies no entry, an audit completion that evicts entries beyond
\* the cap included.
C24_ComparisonPairStaysValid ==
    [][(PairIdentifiesEntries /\ comparisonPair' = comparisonPair) => PairIdentifiesEntries']_vars

\* a step of the delayed callback
CallbackStep == pending' = pending - 1

\* C25: history holds at most HistoryCap (50 in the store) entries, ordered from the
\* most recently completed audit to the oldest; a completing audit prepends its entry
\* and drops the entries beyond the cap.
C25_HistoryBoundedNewestFirst ==
    /\ [](/\ Len(history) <= HistoryCap
          /\ \A i, j \in DOMAIN history :
                i < j => history[i].timestamp >= history[j].timestamp)
    /\ [][CallbackStep =>
            /\ history'[1] = serializeReport(Val(auditReport'))
            /\ history'[1].timestamp = now
            /\ Tail(history') = SubSeq(history, 1, Min(Len(history), HistoryCap - 1))]_vars

\* a full history whose newest entry is younger than its oldest
C25_Witness ==
    /\ Len(history) = HistoryCap
    /\ history[1].timestamp > history[Len(history)].timestamp
    /\ auditReport # None
    /\ serializeReport(Val(auditReport)) = history[1]

\* C26: whenever auditReport is non-null it is the report of the inputs held in
\* lastConfigInputs, and parsedConfig is their parsed model; a completing audit sets the
\* three together from the configInputs of the moment the callback runs.
C26_ReportMatchesLastInputs ==
    /\ [](auditReport # None =>
            /\ parsedConfig = Some(parseAllConfigs(lastConfigInputs))
            /\ Val(auditReport) = generateAuditReport(parseAllConfigs(lastConfigInputs),
                                                      allRules, Val(auditReport).timestamp))
    /\ [][CallbackStep =>
            /\ lastConfigInputs' = configInputs
            /\ auditReport' # None
            /\ parsedConfig' = Some(parseAllConfigs(configInputs))]_vars

\* a report of the insecure SSH text, shown while the editor already holds other texts
\* and another audit is pending
C26_Witness ==
    /\ auditReport # None
    /\ lastConfigInputs["sshd_config"] = InsecureSshText
    /\ configInputs # lastConfigInputs
    /\ pending > 0
    /\ ~PassedIn(Val(auditReport), "root-ssh-password")

\* C27: under fair scheduling of the delayed callback every runAudit call is followed
\* by a state in which the callback has run: isAuditing is false, parsedConfig and
\* auditReport are non-null and history has the entry of the report.
C27_AuditEventuallyCompletes ==
    /\ [][TimerFires <=> runAuditTimeout]_vars
    /\ (pending > 0) ~>
            /\ ~isAuditing
            /\ parsedConfig # None
            /\ auditReport # None
            /\ history # << >>
            /\ history[1] = serializeReport(Val(auditReport))

\* two audits were called one after the other and both callbacks have run
C27_Witness ==
    /\ pending = 0
    /\ ~isAuditing
    /\ auditReport # None
    /\ Len(history) >= 2
    /\ history[1] = serializeReport(Val(auditReport))

=============================================================================
